---- MODULE Spec2Model ----
(***************************************************************************)
(* A model of flasktrack's scaffold generator (src/src/flasktrack/         *)
(* scaffold.py) and of the `scaffold` command of its CLI                   *)
(* (src/src/flasktrack/cli.py).                                            *)
(*                                                                         *)
(* Texts.  A Python str is modelled as a finite sequence of lexemes, each  *)
(* lexeme a TLA+ string standing for exactly that piece of text; the str   *)
(* is the concatenation of its lexemes.  Identifiers the code inspects     *)
(* character by character (field names, model names) are written one       *)
(* character per lexeme.  The lexemes used are uniquely decodable and no   *)
(* pattern the code searches for begins or ends inside one of them, so     *)
(* `in` is contiguous-subsequence search, str equality is sequence         *)
(* equality and each regular expression of the code is evaluated lexeme by *)
(* lexeme with the character classes below.                                *)
(***************************************************************************)
EXTENDS Integers, Sequences, FiniteSets, TLC

VARIABLES ctor, dirs, files, runs, lastRun

\* history: the model and the exit code of every run of the scaffold command
\* so far, and the latest direct call of update_app_init with what came of it
VARIABLES log, lastUpd

\* the generated application: the users table, the clock, the browser
\* sessions, the verify_magic_link requests in progress and the latest
\* verify_magic_link response each browser got; issued and spent are
\* history: the minute each token was handed out at and the tokens that
\* have logged a user in
VARIABLES users, now, session, req, resp, issued, spent

\* the configured MAGIC_LINK_EXPIRY_MINUTES, and the mails sent so far, each
\* with the token of its link and the minutes it announces
VARIABLES config, outbox

\* an application directory add-admin is pointed at, and the latest call of
\* add-admin or add_user_to_app with what came of it (users is the table of
\* that application's database)
VARIABLES proj, lastCall

\* the file a FlaskTracker is pointed at, and the tracker last constructed
VARIABLES disk, tracker

\* the users table as the admin blueprint sees it (every column of the
\* model), the clock of its database, and the latest POST of the edit form
\* with what came of it
VARIABLES userTable, clock, lastEdit

scaffoldVars == <<ctor, dirs, files, runs, lastRun, log, lastUpd>>
webVars == <<now, session, req, resp, issued, spent, config, outbox>>
authVars == <<users, webVars>>
cmdVars == <<proj, lastCall>>
trackVars == <<disk, tracker>>
adminVars == <<userTable, clock, lastEdit>>

vars == <<scaffoldVars, authVars, cmdVars, trackVars, adminVars>>

\* what each part of the model leaves alone
ElseThanScaffold == <<authVars, cmdVars, trackVars, adminVars>>
ElseThanAuth == <<scaffoldVars, cmdVars, trackVars, adminVars>>
ElseThanCmd == <<scaffoldVars, webVars, trackVars, adminVars>>
ElseThanTrack == <<scaffoldVars, authVars, cmdVars, adminVars>>
ElseThanAdmin == <<scaffoldVars, authVars, cmdVars, trackVars>>

\* Config.MAGIC_LINK_EXPIRY_MINUTES as the template sets it
MAGIC_LINK_EXPIRY_MINUTES == 15

\* the generated application is not running
WebIdle ==
    /\ now = 0
    /\ session = << >>
    /\ req = << >>
    /\ resp = << >>
    /\ issued = << >>
    /\ spent = {}
    /\ config = MAGIC_LINK_EXPIRY_MINUTES
    /\ outbox = << >>

AuthIdle == users = << >> /\ WebIdle

\* no command is run on an application directory
CmdIdle ==
    /\ proj = << >>
    /\ lastCall = << >>

\* no FlaskTracker is constructed
TrackIdle ==
    /\ disk = << >>
    /\ tracker = << >>

\* the admin blueprint serves no request
AdminIdle ==
    /\ userTable = << >>
    /\ clock = 0
    /\ lastEdit = << >>

\* no scaffold is being generated
ScaffoldIdle ==
    /\ ctor = [called |-> FALSE, name |-> << >>, fields |-> << >>,
               raised |-> "none", obj |-> << >>]
    /\ dirs = {}
    /\ files = << >>
    /\ runs = 0
    /\ lastRun = << >>
    /\ log = << >>
    /\ lastUpd = << >>

(***************************************************************************)
(* Bounds of the exploration.                                              *)
(***************************************************************************)
MaxWordLen == 3
MaxFields == 2
MaxRuns == 1

(***************************************************************************)
(* Optional values: None is the empty tuple, Some(x) the 1-tuple.          *)
(***************************************************************************)
None == << >>
Some(x) == << x >>

(***************************************************************************)
(* Characters and str methods.                                             *)
(***************************************************************************)
Lowers == <<"a", "b", "c", "d", "e", "f", "g", "h", "i", "j", "k", "l", "m",
            "n", "o", "p", "q", "r", "s", "t", "u", "v", "w", "x", "y", "z">>
Uppers == <<"A", "B", "C", "D", "E", "F", "G", "H", "I", "J", "K", "L", "M",
            "N", "O", "P", "Q", "R", "S", "T", "U", "V", "W", "X", "Y", "Z">>

LetterIdx == DOMAIN Lowers

LowerChar(c) ==
    IF \E i \in LetterIdx : Uppers[i] = c
    THEN Lowers[CHOOSE i \in LetterIdx : Uppers[i] = c]
    ELSE c

UpperChar(c) ==
    IF \E i \in LetterIdx : Lowers[i] = c
    THEN Uppers[CHOOSE i \in LetterIdx : Lowers[i] = c]
    ELSE c

\* str.lower()
lower(s) == [i \in 1..Len(s) |-> LowerChar(s[i])]

\* A slip: capitalize() that only raises the first character.
capitalize_FirstOnly(s) ==
    IF Len(s) = 0 THEN s
    ELSE <<UpperChar(s[1])>> \o SubSeq(s, 2, Len(s))

\* str.capitalize(): first character upper-cased, all the others lower-cased.
capitalize(s) ==
    IF Len(s) = 0 THEN s
    ELSE <<UpperChar(s[1])>> \o lower(SubSeq(s, 2, Len(s)))

\* str.endswith(suffix)
endswith(s, suf) ==
    /\ Len(suf) <= Len(s)
    /\ SubSeq(s, Len(s) - Len(suf) + 1, Len(s)) = suf

\* `needle in hay` for two strs
Contains(hay, needle) ==
    \E i \in 0..(Len(hay) - Len(needle)) :
        SubSeq(hay, i + 1, i + Len(needle)) = needle

\* Python's s[:-k]
DropLast(s, k) == SubSeq(s, 1, Len(s) - k)

(***************************************************************************)
(* Scaffold.pluralize  (scaffold.py 109-143)                               *)
(***************************************************************************)
Vowels == {"a", "e", "i", "o", "u"}

irregular ==
    { << <<"p","e","r","s","o","n">>, <<"p","e","o","p","l","e">> >>,
      << <<"c","h","i","l","d">>,     <<"c","h","i","l","d","r","e","n">> >>,
      << <<"m","a","n">>,             <<"m","e","n">> >>,
      << <<"w","o","m","a","n">>,     <<"w","o","m","e","n">> >>,
      << <<"t","o","o","t","h">>,     <<"t","e","e","t","h">> >>,
      << <<"f","o","o","t">>,         <<"f","e","e","t">> >>,
      << <<"m","o","u","s","e">>,     <<"m","i","c","e">> >>,
      << <<"g","o","o","s","e">>,     <<"g","e","e","s","e">> >> }

\* the tuple given to endswith() on line 136
EsSuffixes == { <<"s">>, <<"s","s">>, <<"s","h">>, <<"c","h">>, <<"x">>,
                <<"z">>, <<"o">> }

\* A slip: the vowel test of the 'y' rule dropped.
pluralize_NoVowelTest(word) ==
    IF \E p \in irregular : p[1] = word
    THEN (CHOOSE p \in irregular : p[1] = word)[2]
    ELSE IF endswith(word, <<"y">>) /\ Len(word) > 1
    THEN DropLast(word, 1) \o <<"i","e","s">>
    ELSE IF \E suf \in EsSuffixes : endswith(word, suf)
    THEN word \o <<"e","s">>
    ELSE IF endswith(word, <<"f">>)
    THEN DropLast(word, 1) \o <<"v","e","s">>
    ELSE IF endswith(word, <<"f","e">>)
    THEN DropLast(word, 2) \o <<"v","e","s">>
    ELSE word \o <<"s">>

pluralize(word) ==
    IF \E p \in irregular : p[1] = word
    THEN (CHOOSE p \in irregular : p[1] = word)[2]
    ELSE IF /\ endswith(word, <<"y">>)
            /\ Len(word) > 1
            /\ word[Len(word) - 1] \notin Vowels
    THEN DropLast(word, 1) \o <<"i","e","s">>
    ELSE IF \E suf \in EsSuffixes : endswith(word, suf)
    THEN word \o <<"e","s">>
    ELSE IF endswith(word, <<"f">>)
    THEN DropLast(word, 1) \o <<"v","e","s">>
    ELSE IF endswith(word, <<"f","e">>)
    THEN DropLast(word, 2) \o <<"v","e","s">>
    ELSE word \o <<"s">>

(***************************************************************************)
(* Scaffold.parse_fields  (scaffold.py 61-107)                             *)
(***************************************************************************)
TYPE_MAPPINGS ==
    [t \in {"string", "text", "integer", "float", "decimal", "boolean",
            "date", "datetime", "references", "belongs_to"} |->
        CASE t = "string"     -> "db.String(255)"
          [] t = "text"       -> "db.Text"
          [] t = "integer"    -> "db.Integer"
          [] t = "float"      -> "db.Float"
          [] t = "decimal"    -> "db.Numeric"
          [] t = "boolean"    -> "db.Boolean"
          [] t = "date"       -> "db.Date"
          [] t = "datetime"   -> "db.DateTime"
          [] t = "references" -> "reference"
          [] t = "belongs_to" -> "reference"]

FORM_FIELD_MAPPINGS ==
    [t \in {"string", "text", "integer", "float", "decimal", "boolean",
            "date", "datetime", "references", "belongs_to"} |->
        CASE t = "string"     -> "StringField"
          [] t = "text"       -> "TextAreaField"
          [] t = "integer"    -> "IntegerField"
          [] t = "float"      -> "FloatField"
          [] t = "decimal"    -> "DecimalField"
          [] t = "boolean"    -> "BooleanField"
          [] t = "date"       -> "DateField"
          [] t = "datetime"   -> "DateTimeField"
          [] t = "references" -> "SelectField"
          [] t = "belongs_to" -> "SelectField"]

ReferenceTypes == {"references", "belongs_to"}

\* The lexemes made of \w characters only.
WordLexemes ==
    { Lowers[i] : i \in LetterIdx } \cup { Uppers[i] : i \in LetterIdx }
    \cup DOMAIN TYPE_MAPPINGS
    \cup {"String", "Author", "x", "_", "_bp", "main", "auth", "admin",
          "user", "User", "db", "prefix"}

IsWord(a) == a \in WordLexemes

\* length of the longest run of \w lexemes of s that starts at index from
RECURSIVE WordRun(_, _)
WordRun(s, from) ==
    IF from <= Len(s) /\ IsWord(s[from]) THEN 1 + WordRun(s, from + 1) ELSE 0

InvalidFieldDefinition == "ValueError: Invalid field definition"
InvalidFieldType == "ValueError: Invalid field type"

\* ":" in field_def
HasColon(d) == \E i \in 1..Len(d) : d[i] = ":"
FirstColon(d) == CHOOSE i \in 1..Len(d) :
                    d[i] = ":" /\ \A j \in 1..(i - 1) : d[j] # ":"

\* group(2) of re.match(r"(references|belongs_to)(?:\[(\w+)\])?", field_type),
\* for a field_type that starts with one of the two words: None when the
\* optional group took no part in the match.
MatchGroup2(ft) ==
    LET k == WordRun(ft, 3)
    IN  IF /\ Len(ft) >= 4
           /\ ft[2] = "["
           /\ k >= 1
           /\ 2 + k + 1 <= Len(ft)
           /\ ft[2 + k + 1] = "]"
        THEN Some(SubSeq(ft, 3, 2 + k))
        ELSE None

\* One iteration of the loop of parse_fields on field_def d (lines 72-105):
\* [raised |-> the ValueError or "none", field |-> field_info].
parse_field(d) ==
    IF ~HasColon(d)
    THEN [raised |-> InvalidFieldDefinition, field |-> None]
    ELSE
      LET c        == FirstColon(d)
          name     == SubSeq(d, 1, c - 1)
          raw_type == SubSeq(d, c + 1, Len(d))
          isRefPfx == Len(raw_type) >= 1 /\ raw_type[1] \in ReferenceTypes
          field_type == IF isRefPfx THEN <<raw_type[1]>> ELSE raw_type
          group2   == IF isRefPfx THEN MatchGroup2(raw_type) ELSE None
          referenced_model ==
              IF ~isRefPfx THEN None
              ELSE IF group2 # None THEN group2
              ELSE Some(capitalize(name))
      IN  IF ~(Len(field_type) = 1 /\ field_type[1] \in DOMAIN TYPE_MAPPINGS)
          THEN [raised |-> InvalidFieldType, field |-> None]
          ELSE [raised |-> "none",
                field  |-> Some([name             |-> name,
                                 type             |-> field_type[1],
                                 sqlalchemy_type  |-> TYPE_MAPPINGS[field_type[1]],
                                 form_field_type  |-> FORM_FIELD_MAPPINGS[field_type[1]],
                                 is_reference     |-> field_type[1] \in ReferenceTypes,
                                 referenced_model |-> referenced_model])]

\* A slip: a definition that does not parse is skipped, the loop goes on.
RECURSIVE parse_loop_SkipBad(_, _)
parse_loop_SkipBad(defs, fields) ==
    IF defs = << >> THEN [raised |-> "none", fields |-> Some(fields)]
    ELSE LET r == parse_field(Head(defs))
         IN  IF r.raised # "none"
             THEN parse_loop_SkipBad(Tail(defs), fields)
             ELSE parse_loop_SkipBad(Tail(defs), Append(fields, r.field[1]))

\* A slip: each record is put in front of the list instead of at its end.
RECURSIVE parse_loop_Prepend(_, _)
parse_loop_Prepend(defs, fields) ==
    IF defs = << >> THEN [raised |-> "none", fields |-> Some(fields)]
    ELSE LET r == parse_field(Head(defs))
         IN  IF r.raised # "none"
             THEN [raised |-> r.raised, fields |-> None]
             ELSE parse_loop_Prepend(Tail(defs), <<r.field[1]>> \o fields)

\* The loop: fields accumulates, the first ValueError leaves the function.
RECURSIVE parse_loop(_, _)
parse_loop(defs, fields) ==
    IF defs = << >> THEN [raised |-> "none", fields |-> Some(fields)]
    ELSE LET r == parse_field(Head(defs))
         IN  IF r.raised # "none"
             THEN [raised |-> r.raised, fields |-> None]
             ELSE parse_loop(Tail(defs), Append(fields, r.field[1]))

parse_fields(field_definitions) == parse_loop(field_definitions, << >>)

(***************************************************************************)
(* Scaffold.__init__  (scaffold.py 41-51): the object, or the ValueError   *)
(* that parse_fields raised.                                               *)
(***************************************************************************)
NewScaffold(name, fields) ==
    LET name_lower == lower(name)
        parsed     == parse_fields(fields)
    IN  IF parsed.raised # "none"
        THEN [raised |-> parsed.raised, obj |-> None]
        ELSE [raised |-> "none",
              obj    |-> Some([name        |-> name,
                               name_lower  |-> name_lower,
                               name_plural |-> pluralize(name_lower),
                               fields      |-> parsed.fields[1]])]

(***************************************************************************)
(* Scaffold.update_app_init  (scaffold.py 260-357) on the text of          *)
(* app/__init__.py.  Offsets count lexemes: offset k is the position       *)
(* between lexeme k and lexeme k+1.  Every ')' and every '}' of a text is  *)
(* a lexeme of its own, "\n" is the only lexeme with a newline in it and   *)
(* the space lexemes are the only ones with white space at either end.     *)
(***************************************************************************)
NL == "\n"
IND == "    "
IND8 == "        "
SpaceLexemes == {NL, IND, IND8, " "}
IsSpace(a) == a \in SpaceLexemes

RegisterComment == "# Register blueprints"
ControllersFrom == "from app.controllers."
ModelsFrom == "from app.models."
ImportKw == " import "
BpSuffix == "_bp"
RegisterOpen == "app.register_blueprint("
RParen == ")"
RBrace == "}"
ShellDecorator == "@app.shell_context_processor"
ShellDef == <<"def make_shell_context(", ")", ":">>
ReturnOpen == "return {"
UserEntry == "\"User\": User"

InsertAt(content, pos, piece) ==
    SubSeq(content, 1, pos) \o piece \o SubSeq(content, pos + 1, Len(content))

\* lines 275-277 and 309
import_line(sc) ==
    <<ControllersFrom>> \o sc.name_plural \o <<ImportKw>> \o sc.name_plural
        \o <<BpSuffix>>

register_line(sc) ==
    <<RegisterOpen>> \o sc.name_plural \o <<BpSuffix, ", url_prefix='/">>
        \o sc.name_plural \o <<"'", RParen>>

\* line 334
model_import(sc) ==
    <<ModelsFrom>> \o sc.name_lower \o <<ImportKw>> \o sc.name

\* r"from app\.controllers\.\w+ import \w+_bp\n" matched at lexeme q of c:
\* the offset where the match ends, 0 if it does not match there.
BpImportEnd(c, q) ==
    IF q > Len(c) \/ c[q] # ControllersFrom THEN 0
    ELSE LET w1 == WordRun(c, q + 1)
             k  == q + 1 + w1
         IN  IF w1 = 0 \/ k > Len(c) \/ c[k] # ImportKw THEN 0
             ELSE LET w2 == WordRun(c, k + 1)
                      e  == k + w2
                  IN  IF /\ w2 >= 2
                         /\ c[e] = BpSuffix
                         /\ e + 1 <= Len(c)
                         /\ c[e + 1] = NL
                      THEN e + 1
                      ELSE 0

\* r"(\s+# Register blueprints\n)(.*?)(from app\.controllers\.\w+ import \w+_bp\n)"
\* with the comment at lexeme i: the end of the match, 0 if none.  `.` does
\* not match a newline, so group 3 lies on the line that follows the comment.
ImportPatternEndAt(c, i) ==
    IF ~(/\ i >= 2
         /\ i + 1 <= Len(c)
         /\ c[i] = RegisterComment
         /\ IsSpace(c[i - 1])
         /\ c[i + 1] = NL)
    THEN 0
    ELSE LET starts == { q \in (i + 2)..Len(c) :
                            /\ BpImportEnd(c, q) # 0
                            /\ \A j \in (i + 2)..(q - 1) : c[j] # NL }
         IN  IF starts = {} THEN 0
             ELSE BpImportEnd(c, CHOOSE q \in starts : \A r \in starts : q <= r)

\* import_pattern.search(content).end(), 0 if there is no match (line 285)
ImportPatternEnd(c) ==
    LET hits == { i \in 1..Len(c) : ImportPatternEndAt(c, i) # 0 }
    IN  IF hits = {} THEN 0
        ELSE ImportPatternEndAt(c, CHOOSE i \in hits : \A j \in hits : i <= j)

\* the first lexeme of the white space that ends just before lexeme r
RECURSIVE SpaceStart(_, _)
SpaceStart(c, r) ==
    IF r > 1 /\ IsSpace(c[r - 1]) THEN SpaceStart(c, r - 1) ELSE r

\* re.compile(r"(\s+)(app\.register_blueprint\()").search(content): the
\* lexeme index of the first call that has white space before it, 0 if none
FirstSpacedRegister(c) ==
    LET hits == { r \in 2..Len(c) : c[r] = RegisterOpen /\ IsSpace(c[r - 1]) }
    IN  IF hits = {} THEN 0 ELSE CHOOSE r \in hits : \A j \in hits : r <= j

\* lines 281-306: the import line goes in
AddImport(sc, c) ==
    LET e == ImportPatternEnd(c)
        r == FirstSpacedRegister(c)
    IN  IF e # 0
        THEN InsertAt(c, e, <<IND>> \o import_line(sc) \o <<NL>>)
        ELSE IF r # 0
        THEN LET start  == SpaceStart(c, r)
                 indent == SubSeq(c, start, r - 1)
             IN  InsertAt(c, start - 1, indent \o import_line(sc) \o <<NL, NL>>)
        ELSE c

\* r"(app\.register_blueprint\([^)]+\))" tried at lexeme i: the index of the
\* ')' that ends the match, 0 if there is no match at i.
RegisterMatchEnd(c, i) ==
    IF i > Len(c) \/ c[i] # RegisterOpen THEN 0
    ELSE LET closes == { j \in (i + 1)..Len(c) : c[j] = RParen }
         IN  IF closes = {} THEN 0
             ELSE LET j == CHOOSE x \in closes : \A y \in closes : x <= y
                  IN  IF j = i + 1 THEN 0 ELSE j

\* the first lexeme from i on where register_pattern matches, 0 if none
NextRegisterMatch(c, i) ==
    LET hits == { k \in i..Len(c) : RegisterMatchEnd(c, k) # 0 }
    IN  IF hits = {} THEN 0 ELSE CHOOSE k \in hits : \A j \in hits : k <= j

\* list(register_pattern.finditer(content))[-1] as <<start, end>> lexeme
\* indexes, << >> if the list is empty: the scan goes left to right and
\* resumes after each match.
RECURSIVE LastRegisterMatch(_, _, _)
LastRegisterMatch(c, i, found) ==
    IF NextRegisterMatch(c, i) = 0 THEN found
    ELSE LastRegisterMatch(c,
             RegisterMatchEnd(c, NextRegisterMatch(c, i)) + 1,
             <<NextRegisterMatch(c, i),
               RegisterMatchEnd(c, NextRegisterMatch(c, i))>>)

\* content.rfind("\n", 0, start) + 1, as the index of the first lexeme of
\* the line that lexeme start is on
RECURSIVE LineStart(_, _)
LineStart(c, start) ==
    IF start > 1 /\ c[start - 1] # NL THEN LineStart(c, start - 1) ELSE start

\* A slip: the new call is put before the last existing call, not after it.
AddRegistration_Before(sc, c) ==
    IF Contains(c, register_line(sc)) THEN c
    ELSE LET m == LastRegisterMatch(c, 1, << >>)
         IN  IF m = << >> THEN c
             ELSE LET ls     == LineStart(c, m[1])
                      indent == SubSeq(c, ls, m[1] - 1)
                  IN  InsertAt(c, m[1] - 1, register_line(sc) \o <<NL>> \o indent)

\* A slip: no register_blueprint call is added.
AddRegistration_Skip(sc, c) == c

\* lines 308-324: the register_blueprint call goes in
AddRegistration(sc, c) ==
    IF Contains(c, register_line(sc)) THEN c
    ELSE LET m == LastRegisterMatch(c, 1, << >>)
         IN  IF m = << >> THEN c
             ELSE LET ls     == LineStart(c, m[1])
                      indent == SubSeq(c, ls, m[1] - 1)
                  IN  InsertAt(c, m[2], <<NL>> \o indent \o register_line(sc))

\* r"from app\.models\.\w+ import \w+\n" matched at lexeme q: the offset
\* where the match ends, 0 if it does not match there
ModelImportEnd(c, q) ==
    IF q > Len(c) \/ c[q] # ModelsFrom THEN 0
    ELSE LET w1 == WordRun(c, q + 1)
             k  == q + 1 + w1
         IN  IF w1 = 0 \/ k > Len(c) \/ c[k] # ImportKw THEN 0
             ELSE LET w2 == WordRun(c, k + 1)
                      e  == k + w2
                  IN  IF w2 >= 1 /\ e + 1 <= Len(c) /\ c[e + 1] = NL
                      THEN e + 1
                      ELSE 0

\* the shell-context pattern (line 327, re.DOTALL) with the decorator at
\* lexeme a: the end of the match, 0 if none
ShellPatternEndAt(c, a) ==
    IF a > Len(c) \/ c[a] # ShellDecorator THEN 0
    ELSE LET sp == { k \in (a + 1)..Len(c) :
                        /\ \A j \in (a + 1)..k : IsSpace(c[j])
                        /\ k + 3 <= Len(c)
                        /\ SubSeq(c, k + 1, k + 3) = ShellDef }
         IN  IF sp = {} THEN 0
             ELSE LET k  == CHOOSE x \in sp : TRUE
                      qs == { q \in (k + 4)..Len(c) : ModelImportEnd(c, q) # 0 }
                  IN  IF qs = {} THEN 0
                      ELSE ModelImportEnd(c, CHOOSE q \in qs : \A r \in qs : q <= r)

ShellPatternEnd(c) ==
    LET hits == { a \in 1..Len(c) : ShellPatternEndAt(c, a) # 0 }
    IN  IF hits = {} THEN 0
        ELSE ShellPatternEndAt(c, CHOOSE a \in hits : \A b \in hits : a <= b)

\* re.compile(r'(return \{[^}]+)"User": User').search(content).end(), 0 if
\* there is no match: [^}]+ is greedy and needs one character at least
ReturnPatternEndAt(c, i) ==
    IF i > Len(c) \/ c[i] # ReturnOpen THEN 0
    ELSE LET us == { u \in (i + 2)..Len(c) :
                        /\ c[u] = UserEntry
                        /\ \A j \in (i + 1)..(u - 1) : c[j] # RBrace }
         IN  IF us = {} THEN 0
             ELSE CHOOSE u \in us : \A v \in us : v <= u

ReturnPatternEnd(c) ==
    LET hits == { i \in 1..Len(c) : ReturnPatternEndAt(c, i) # 0 }
    IN  IF hits = {} THEN 0
        ELSE ReturnPatternEndAt(c, CHOOSE i \in hits : \A j \in hits : i <= j)

\* lines 345-354
AddDictEntry(sc, c) ==
    LET e == ReturnPatternEnd(c)
    IN  IF e = 0 THEN c
        ELSE InsertAt(c, e, <<", \"">> \o sc.name \o <<"\": ">> \o sc.name)

\* lines 326-354: the shell context processor gets the new model
AddShellContext(sc, c) ==
    LET e == ShellPatternEnd(c)
    IN  IF e = 0 \/ Contains(c, model_import(sc)) THEN c
        ELSE AddDictEntry(sc, InsertAt(c, e, <<IND8>> \o model_import(sc) \o <<NL>>))

\* The text update_app_init writes for content c (lines 281-356).
PatchedInit(sc, c) == AddShellContext(sc, AddRegistration(sc, AddImport(sc, c)))


(***************************************************************************)
(* The file system: dirs is the set of directories, files maps each file   *)
(* to its text.  A path is the tuple of its components below the working   *)
(* directory.                                                              *)
(***************************************************************************)
AppDir == << <<"app">> >>
ModelsDir == Append(AppDir, <<"models">>)
ControllersDir == Append(AppDir, <<"controllers">>)
FormsDir == Append(AppDir, <<"forms">>)
ViewsRoot == Append(AppDir, <<"views">>)
AppInitPath == Append(AppDir, <<"__init__.py">>)

\* Path.exists()
Exists(ds, fs, path) == path \in ds \/ path \in DOMAIN fs

\* Path.mkdir(parents=True, exist_ok=True) where no file is in the way
MkdirP(ds, path) == ds \cup { SubSeq(path, 1, k) : k \in 1..Len(path) }

\* Path.write_text(text)
WriteText(fs, path, text) == (path :> text) @@ fs

\* what a template renders for this scaffold
Rendered(template, sc) == <<template, " rendered for ">> \o sc.name

\* A slip: the templates taken in sorted order.
template_names_Sorted == <<"_form.html", "edit.html", "index.html",
                           "new.html", "show.html">>

\* generate_views (scaffold.py 181-207): the templates, in dict order
template_names == <<"index.html", "show.html", "new.html", "edit.html",
                    "_form.html">>

model_path(sc) == Append(ModelsDir, sc.name_lower \o <<".py">>)
controller_path(sc) == Append(ControllersDir, sc.name_plural \o <<".py">>)
form_path(sc) == Append(FormsDir, sc.name_lower \o <<".py">>)
views_dir(sc) == Append(ViewsRoot, sc.name_plural)
view_path(sc, i) == Append(views_dir(sc), <<template_names[i]>>)

\* lines 251-256: the loop over the views, from view i on
RECURSIVE write_views(_, _, _, _)
write_views(sc, fs, created, i) ==
    IF i > Len(template_names)
    THEN [files |-> fs, created |-> created]
    ELSE write_views(sc,
                     WriteText(fs, view_path(sc, i),
                               Rendered(template_names[i], sc)),
                     Append(created, view_path(sc, i)),
                     i + 1)

\* A slip: the model is written before it is looked for.
write_files_NoModelCheck(sc, ds, fs) ==
    LET ds1 == MkdirP(MkdirP(MkdirP(MkdirP(ds, ModelsDir), ControllersDir),
                             FormsDir), views_dir(sc))
        fs1 == WriteText(fs, model_path(sc), Rendered("model.py", sc))
        fs2 == WriteText(fs1, controller_path(sc), Rendered("controller.py", sc))
        fs3 == WriteText(fs2, form_path(sc), Rendered("form.py", sc))
        v   == write_views(sc, fs3, <<model_path(sc), controller_path(sc),
                                      form_path(sc)>>, 1)
    IN  [raised |-> "none", created |-> v.created, dirs |-> ds1,
         files |-> v.files]

\* Scaffold.write_files (scaffold.py 209-258): what it raises ("none" when it
\* returns), the list it returns, and the file system it leaves.
write_files(sc, ds, fs) ==
    LET ds1 == MkdirP(MkdirP(MkdirP(MkdirP(ds, ModelsDir), ControllersDir),
                             FormsDir), views_dir(sc))
        fs1 == WriteText(fs, model_path(sc), Rendered("model.py", sc))
        fs2 == WriteText(fs1, controller_path(sc), Rendered("controller.py", sc))
        fs3 == WriteText(fs2, form_path(sc), Rendered("form.py", sc))
        v   == write_views(sc, fs3, <<model_path(sc), controller_path(sc),
                                      form_path(sc)>>, 1)
    IN  IF Exists(ds1, fs, model_path(sc))
        THEN [raised |-> "FileExistsError: Model already exists",
              created |-> << >>, dirs |-> ds1, files |-> fs]
        ELSE IF Exists(ds1, fs1, controller_path(sc))
        THEN [raised |-> "FileExistsError: Controller already exists",
              created |-> << >>, dirs |-> ds1, files |-> fs1]
        ELSE IF Exists(ds1, fs2, form_path(sc))
        THEN [raised |-> "FileExistsError: Form already exists",
              created |-> << >>, dirs |-> ds1, files |-> fs2]
        ELSE [raised |-> "none", created |-> v.created, dirs |-> ds1,
              files |-> v.files]

\* A slip: the test for the import line left out.
update_app_init_NoImportTest(sc, ds, fs) ==
    IF ~Exists(ds, fs, AppInitPath)
    THEN [ret |-> FALSE, files |-> fs]
    ELSE [ret |-> TRUE,
          files |-> WriteText(fs, AppInitPath, PatchedInit(sc, fs[AppInitPath]))]

\* Scaffold.update_app_init (scaffold.py 260-357): the value it returns and
\* the files it leaves.
update_app_init(sc, ds, fs) ==
    IF ~Exists(ds, fs, AppInitPath)
    THEN [ret |-> FALSE, files |-> fs]
    ELSE IF Contains(fs[AppInitPath], import_line(sc))
    THEN [ret |-> FALSE, files |-> fs]
    ELSE [ret |-> TRUE,
          files |-> WriteText(fs, AppInitPath, PatchedInit(sc, fs[AppInitPath]))]

(***************************************************************************)
(* The scaffold command (cli.py 237-320): exit code, what is printed, and  *)
(* the file system it leaves.  wf and upd record what write_files raised   *)
(* and what update_app_init returned, "not called" if they were not called.*)
(***************************************************************************)
MsgCreating == "Creating scaffold for"
MsgNoApp == "No 'app' directory found"
MsgOther == "Error creating scaffold:"
MsgSomeExist == "Some files already exist"
MsgUpdated == "Updated app/__init__.py"
MsgNotUpdated == "Could not update app/__init__.py automatically"
MsgSuccess == "Scaffold created successfully!"

\* A slip: the init file is patched whatever --skip-init says.
scaffold_in_app_IgnoreSkipInit(sc, skip_init, ds, fs) ==
    LET w == write_files(sc, ds, fs)
        u == update_app_init(sc, w.dirs, w.files)
    IN  IF w.raised # "none"
        THEN [exit_code |-> 1,
              out |-> {MsgCreating, w.raised, MsgSomeExist},
              wf |-> w.raised, created |-> << >>, upd |-> "not called",
              dirs |-> w.dirs, files |-> w.files]
        ELSE [exit_code |-> 0,
              out |-> {MsgCreating, MsgSuccess,
                       IF u.ret THEN MsgUpdated ELSE MsgNotUpdated},
              wf |-> "none", created |-> w.created,
              upd |-> IF u.ret THEN "True" ELSE "False",
              dirs |-> w.dirs, files |-> u.files]

\* cli.py 272-309: the command once the Scaffold object exists and app/ was
\* found
scaffold_in_app(sc, skip_init, ds, fs) ==
    LET w == write_files(sc, ds, fs)
        u == update_app_init(sc, w.dirs, w.files)
    IN  IF w.raised # "none"
        THEN \* except FileExistsError
             [exit_code |-> 1,
              out |-> {MsgCreating, w.raised, MsgSomeExist},
              wf |-> w.raised, created |-> << >>, upd |-> "not called",
              dirs |-> w.dirs, files |-> w.files]
        ELSE IF skip_init
        THEN [exit_code |-> 0, out |-> {MsgCreating, MsgSuccess},
              wf |-> "none", created |-> w.created, upd |-> "not called",
              dirs |-> w.dirs, files |-> w.files]
        ELSE [exit_code |-> 0,
              out |-> {MsgCreating, MsgSuccess,
                       IF u.ret THEN MsgUpdated ELSE MsgNotUpdated},
              wf |-> "none", created |-> w.created,
              upd |-> IF u.ret THEN "True" ELSE "False",
              dirs |-> w.dirs, files |-> u.files]

\* A slip: the models directory is made before the fields are looked at.
scaffold_MkdirFirst(model_name, fields, skip_init, ds, fs) ==
    LET c == NewScaffold(model_name, fields)
    IN  IF c.raised # "none"
        THEN [exit_code |-> 1, out |-> {MsgCreating, c.raised},
              wf |-> "not called", created |-> << >>, upd |-> "not called",
              dirs |-> MkdirP(ds, ModelsDir), files |-> fs]
        ELSE IF ~Exists(ds, fs, AppDir)
        THEN [exit_code |-> 1, out |-> {MsgCreating, MsgNoApp, MsgOther},
              wf |-> "not called", created |-> << >>, upd |-> "not called",
              dirs |-> ds, files |-> fs]
        ELSE scaffold_in_app(c.obj[1], skip_init, ds, fs)

\* A slip: the test for the app directory left out.
scaffold_NoAppCheck(model_name, fields, skip_init, ds, fs) ==
    LET c == NewScaffold(model_name, fields)
    IN  IF c.raised # "none"
        THEN [exit_code |-> 1, out |-> {MsgCreating, c.raised},
              wf |-> "not called", created |-> << >>, upd |-> "not called",
              dirs |-> ds, files |-> fs]
        ELSE scaffold_in_app(c.obj[1], skip_init, ds, fs)

scaffold(model_name, fields, skip_init, ds, fs) ==
    LET c == NewScaffold(model_name, fields)
    IN  IF c.raised # "none"
        THEN \* except ValueError
             [exit_code |-> 1, out |-> {MsgCreating, c.raised},
              wf |-> "not called", created |-> << >>, upd |-> "not called",
              dirs |-> ds, files |-> fs]
        ELSE IF ~Exists(ds, fs, AppDir)
        THEN \* typer.Exit(1) is an Exception: the last handler sees it too
             [exit_code |-> 1, out |-> {MsgCreating, MsgNoApp, MsgOther},
              wf |-> "not called", created |-> << >>, upd |-> "not called",
              dirs |-> ds, files |-> fs]
        ELSE scaffold_in_app(c.obj[1], skip_init, ds, fs)

(***************************************************************************)
(* Inputs of the constructor.                                              *)
(***************************************************************************)
\* letters a model name is drawn from
NameChars == {"a", "e", "o", "y", "s", "h", "c", "x", "z", "f", "t", "Y", "F"}

Words(n) == UNION { [1..k -> NameChars] : k \in 0..n }

N_Post == <<"P","o","s","t">>
N_Leaf == <<"L","e","a","f">>
N_Leave == <<"L","e","a","v","e">>

NamedModels ==
    { N_Post, N_Leaf, N_Leave,
      <<"C","a","t","e","g","o","r","y">>, <<"B","o","x">>,
      <<"K","n","i","f","e">>, <<"C","h","u","r","c","h">>,
      <<"D","i","s","h">>, <<"C","l","a","s","s">>, <<"D","a","y">>,
      <<"P","e","r","s","o","n">>, <<"C","h","i","l","d">>, <<"M","a","n">>,
      <<"W","o","m","a","n">>, <<"T","o","o","t","h">>, <<"F","o","o","t">>,
      <<"M","o","u","s","e">>, <<"G","o","o","s","e">> }

ModelNameInputs == Words(MaxWordLen) \cup NamedModels

\* field names: 'user', 'blogPost' and the empty name
F_user == <<"u","s","e","r">>
F_blogPost == <<"b","l","o","g","P","o","s","t">>
FieldNames == { F_user, F_blogPost }

\* what follows the first ':' of a field definition
FieldTypeTexts ==
    { <<t>> : t \in DOMAIN TYPE_MAPPINGS }
    \cup { <<"references", "[", "Author", "]">>,
           <<"belongs_to", "[", "Author", "]">>,
           <<"references", "x">>,
           <<"references", "[", "Author", "]", "x">>,
           <<"belongs_to", "[", "]">>,
           <<"references", "[", "-", "]">>,
           <<"string", "[", "Author", "]">>,
           <<"x", ":", "string">>,
           <<"String">>,
           <<"x">>,
           << >> }

FieldDefs ==
    { n \o <<":">> \o t : n \in FieldNames, t \in FieldTypeTexts }
    \cup { <<":", "references">>, F_user, << >> }

FieldLists == UNION { [1..k -> FieldDefs] : k \in 0..MaxFields }

(***************************************************************************)
(* Construct: Scaffold(name, fields) is called; ctor records the call and  *)
(* what came of it.                                                        *)
(***************************************************************************)
NoCall == [called |-> FALSE, name |-> << >>, fields |-> << >>,
           raised |-> "none", obj |-> None]

Construct(name, fields) ==
    LET r == NewScaffold(name, fields)
    IN  /\ ctor' = [called |-> TRUE, name |-> name, fields |-> fields,
                    raised |-> r.raised, obj |-> r.obj]
        /\ UNCHANGED <<dirs, files, runs, lastRun, log, lastUpd>>
        /\ UNCHANGED ElseThanScaffold

InitParse ==
    /\ ctor = NoCall
    /\ dirs = {}
    /\ files = << >>
    /\ runs = 0
    /\ lastRun = << >>
    /\ log = << >>
    /\ lastUpd = << >>
    /\ AuthIdle
    /\ CmdIdle
    /\ TrackIdle
    /\ AdminIdle

\* one call is followed from the state before it to the state after it
NextParse ==
    /\ ~ctor.called
    /\ \/ \E name \in ModelNameInputs : Construct(name, << >>)
       \/ \E fields \in FieldLists : Construct(N_Post, fields)

SpecParse == InitParse /\ [][NextParse]_vars

(***************************************************************************)
(* The texts of app/__init__.py the command is run on: the application     *)
(* factory with or without the '# Register blueprints' comment, a blank    *)
(* line after it, blueprint imports, register_blueprint calls (plain, with *)
(* a url_prefix, with a call inside the argument list) and a shell context *)
(* processor whose dictionary is written with double or single quotes.     *)
(***************************************************************************)
BP_main == <<"m","a","i","n">>
BP_auth == <<"a","u","t","h">>

BpImportLine(bp) ==
    <<IND, ControllersFrom>> \o bp \o <<ImportKw>> \o bp \o <<BpSuffix, NL>>

\* the text of one register_blueprint call, from its name to its last ')'
RegCallText(call) ==
    <<RegisterOpen>> \o call.bp \o <<BpSuffix>> \o
        ( CASE call.style = "plain"    -> << >>
            [] call.style = "prefixed" -> <<", url_prefix='/">> \o call.bp \o <<"'">>
            [] call.style = "nested"   -> <<", url_prefix=prefix(", RParen>> )
        \o <<RParen>>

RegCallLine(call) == <<IND>> \o RegCallText(call) \o <<NL>>

RECURSIVE Flatten(_)
Flatten(ss) == IF ss = << >> THEN << >> ELSE Head(ss) \o Flatten(Tail(ss))

ShellContext(quotes) ==
    <<IND, ShellDecorator, NL, IND>> \o ShellDef \o <<NL,
      IND8, ModelsFrom, "u","s","e","r", ImportKw, "U","s","e","r", NL,
      IND8, ReturnOpen>>
    \o (IF quotes = "double" THEN <<"\"db\": db, ", UserEntry>>
                              ELSE <<"'db': db, ", "'User': User">>)
    \o <<RBrace, NL, NL>>

InitText(cmt, gap, imps, regs, shell) ==
    <<"def create_app(", RParen, ":", NL, IND, "app = Flask(__name__", RParen,
      NL, NL>>
    \o (IF cmt THEN <<IND, RegisterComment, NL>> ELSE << >>)
    \o (IF gap THEN <<NL>> ELSE << >>)
    \o Flatten([i \in 1..Len(imps) |-> BpImportLine(imps[i])])
    \o <<NL>>
    \o Flatten([i \in 1..Len(regs) |-> RegCallLine(regs[i])])
    \o <<NL>>
    \o (IF shell = "none" THEN << >> ELSE ShellContext(shell))
    \o <<IND, "return app", NL>>

Call(bp, style) == [bp |-> bp, style |-> style]

ImportLists == { << >>, <<BP_main>>, <<BP_main, BP_auth>> }
CallLists == { << >>,
               <<Call(BP_main, "plain")>>,
               <<Call(BP_main, "plain"), Call(BP_auth, "prefixed")>>,
               <<Call(BP_main, "plain"), Call(BP_auth, "nested")>> }

InitShapes ==
    { sh \in [cmt : BOOLEAN, gap : BOOLEAN, imps : ImportLists,
              regs : CallLists, shell : {"none", "double", "single"}] :
        sh.gap => (sh.cmt /\ sh.imps # << >>) }

TextOf(sh) == InitText(sh.cmt, sh.gap, sh.imps, sh.regs, sh.shell)

\* the init file of the test fixture and of the generated application
(***************************************************************************)
(* The directories the command is started in.                              *)
(***************************************************************************)
PostTargets ==
    { Append(ModelsDir, <<"p","o","s","t",".py">>),
      Append(ControllersDir, <<"p","o","s","t","s",".py">>),
      Append(FormsDir, <<"p","o","s","t",".py">>),
      Append(Append(ViewsRoot, <<"p","o","s","t","s">>), <<"index.html">>) }

AppDirs == {AppDir, ModelsDir, ControllersDir, FormsDir, ViewsRoot}

\* the text of a file that was there before the command ran
OldText == <<"# written by hand">>

StandardShape ==
    [cmt |-> TRUE, gap |-> FALSE, imps |-> <<BP_main, BP_auth>>,
     regs |-> <<Call(BP_main, "plain"), Call(BP_auth, "prefixed")>>,
     shell |-> "double"]

\* an application directory with init file sh and the files old
AppWith(sh, old) ==
    [dirs  |-> AppDirs \cup { SubSeq(p, 1, 3) : p \in { q \in old : Len(q) = 4 } },
     files |-> [p \in {AppInitPath} \cup old |->
                   IF p = AppInitPath THEN TextOf(sh) ELSE OldText]]

StartDirs ==
    { [dirs |-> {}, files |-> << >>],                 \* an empty directory
      [dirs |-> {AppDir}, files |-> << >>] }          \* app/ without __init__.py
    \cup { AppWith(sh, {}) : sh \in InitShapes }
    \cup { AppWith(StandardShape, {p}) : p \in PostTargets }

(***************************************************************************)
(* Run: the scaffold command is run once more.  lastRun keeps the          *)
(* arguments and the outcome of the latest run and the file system it      *)
(* started from.                                                           *)
(***************************************************************************)
CmdModels == { N_Post, N_Leaf, N_Leave }
CmdFieldLists ==
    { << F_user \o <<":", "string">> >>,
      << F_user \o <<":", "references">>, F_user \o <<":", "x">> >>,
      << F_user >> }

Run(model_name, fields, skip_init) ==
    \E r \in {scaffold(model_name, fields, skip_init, dirs, files)} :
        /\ runs' = runs + 1
        /\ dirs' = r.dirs
        /\ files' = r.files
        /\ lastRun' = Some([model_name |-> model_name, fields |-> fields,
                            skip_init |-> skip_init,
                            exit_code |-> r.exit_code, out |-> r.out,
                            wf |-> r.wf, created |-> r.created, upd |-> r.upd,
                            pre_dirs |-> dirs, pre_files |-> files])
        /\ log' = Append(log, [model_name |-> model_name,
                               exit_code |-> r.exit_code])
        /\ UNCHANGED lastUpd
        /\ UNCHANGED ctor
        /\ UNCHANGED ElseThanScaffold

Init ==
    /\ AuthIdle
    /\ CmdIdle
    /\ TrackIdle
    /\ AdminIdle
    /\ ctor = NoCall
    /\ \E d \in StartDirs : dirs = d.dirs /\ files = d.files
    /\ runs = 0
    /\ lastRun = None
    /\ log = << >>
    /\ lastUpd = << >>

Next ==
    /\ runs < MaxRuns
    /\ \E model_name \in CmdModels, fields \in CmdFieldLists,
          skip_init \in BOOLEAN :
            Run(model_name, fields, skip_init)

Spec == Init /\ [][Next]_vars


(***************************************************************************)
(* The claims about the constructor, stated on the recorded call.          *)
(***************************************************************************)
\* The ten type names of the type table, as the documentation lists them.
TenTypeNames == {"string", "text", "integer", "float", "decimal", "boolean",
                 "date", "datetime", "references", "belongs_to"}

\* T is one of the ten names, or references / belongs_to followed by a
\* bracketed model name and nothing else.
ValidTypeText(T) ==
    \/ Len(T) = 1 /\ T[1] \in TenTypeNames
    \/ /\ Len(T) >= 4
       /\ T[1] \in {"references", "belongs_to"}
       /\ T[2] = "["
       /\ T[Len(T)] = "]"
       /\ \A i \in 3..(Len(T) - 1) : IsWord(T[i])

\* the text before / after the first ':' of a definition that has one
NameText(d) == CHOOSE n \in { SubSeq(d, 1, k) : k \in 0..Len(d) } :
                  /\ Len(n) < Len(d)
                  /\ d[Len(n) + 1] = ":"
                  /\ \A i \in 1..Len(n) : n[i] # ":"
TypeText(d) == SubSeq(d, Len(NameText(d)) + 2, Len(d))

ValidDef(d) == HasColon(d) /\ ValidTypeText(TypeText(d))

\* the index of the first definition of the list that is not valid, 0 if none
FirstInvalid(fields) ==
    IF \A i \in 1..Len(fields) : ValidDef(fields[i]) THEN 0
    ELSE CHOOSE i \in 1..Len(fields) :
            ~ValidDef(fields[i]) /\ \A j \in 1..(i - 1) : ValidDef(fields[j])

\* C1: a definition name:T whose T is not one of the ten type names (the
\* last two optionally followed by [Model]) makes the constructor raise
\* ValueError 'Invalid field type', and no Scaffold object results.
C1_InvalidTypeRaises ==
    ctor.called =>
        LET i == FirstInvalid(ctor.fields)
        IN  (i # 0 /\ HasColon(ctor.fields[i])) =>
                ctor.raised = InvalidFieldType /\ ctor.obj = None

\* C2 as stated: a definition without ':' anywhere in the list makes the
\* constructor raise ValueError 'Invalid field definition'.
C2_NoColonAlwaysInvalidDefinition ==
    (ctor.called /\ \E i \in 1..Len(ctor.fields) : ~HasColon(ctor.fields[i]))
        => ctor.raised = InvalidFieldDefinition /\ ctor.obj = None

\* C2 amended: a definition without ':' anywhere in the list makes the
\* constructor raise a ValueError and return no field list; the error is
\* 'Invalid field definition' when every definition before the first such
\* element is valid, and can be 'Invalid field type' only when an earlier
\* definition with a ':' has an invalid type.
C2_NoColonRaises ==
    (ctor.called /\ \E i \in 1..Len(ctor.fields) : ~HasColon(ctor.fields[i]))
        => LET k == CHOOSE i \in 1..Len(ctor.fields) :
                        /\ ~HasColon(ctor.fields[i])
                        /\ \A j \in 1..(i - 1) : HasColon(ctor.fields[j])
           IN  /\ ctor.obj = None
               /\ ctor.raised \in {InvalidFieldDefinition, InvalidFieldType}
               /\ (\A j \in 1..(k - 1) : ValidDef(ctor.fields[j]))
                      => ctor.raised = InvalidFieldDefinition
               /\ ctor.raised = InvalidFieldType
                      => \E j \in 1..(k - 1) : ~ValidDef(ctor.fields[j])

C2_Witness ==
    /\ ctor.called
    /\ Len(ctor.fields) = 2
    /\ ValidDef(ctor.fields[1])
    /\ ~HasColon(ctor.fields[2])
    /\ ctor.raised = InvalidFieldDefinition

\* C3: a list of valid definitions parses to one record per definition, in
\* the same order, record i carrying the name before the first ':' of
\* definition i, the type-table key and the two table entries of that key;
\* the empty list parses to the empty list.
C3_ValidListParsed ==
    (ctor.called /\ \A i \in 1..Len(ctor.fields) : ValidDef(ctor.fields[i]))
        => /\ ctor.raised = "none"
           /\ ctor.obj # None
           /\ LET fs == ctor.obj[1].fields
              IN  /\ Len(fs) = Len(ctor.fields)
                  /\ \A i \in 1..Len(fs) :
                        /\ fs[i].name = NameText(ctor.fields[i])
                        /\ fs[i].type = TypeText(ctor.fields[i])[1]
                        /\ fs[i].type \in TenTypeNames
                        /\ fs[i].sqlalchemy_type = TYPE_MAPPINGS[fs[i].type]
                        /\ fs[i].form_field_type = FORM_FIELD_MAPPINGS[fs[i].type]

C3_Witness ==
    /\ ctor.called
    /\ Len(ctor.fields) = 2
    /\ ctor.fields[1] # ctor.fields[2]
    /\ \A i \in 1..2 : ValidDef(ctor.fields[i])
    /\ ctor.obj # None
    /\ Len(ctor.obj[1].fields) = 2

\* the model name written in brackets right after the reference type of
\* definition d, None if there is none
BracketedModel(d) ==
    LET T == TypeText(d)
    IN  IF \E k \in 4..Len(T) :
              /\ T[2] = "[" /\ T[k] = "]"
              /\ \A i \in 3..(k - 1) : IsWord(T[i])
        THEN LET k == CHOOSE j \in 4..Len(T) :
                        /\ T[2] = "[" /\ T[j] = "]"
                        /\ \A i \in 3..(j - 1) : IsWord(T[i])
             IN  Some(SubSeq(T, 3, k - 1))
        ELSE None

\* s with its first letter upper-cased and nothing else changed
FirstLetterUp(s) ==
    [i \in 1..Len(s) |-> IF i = 1 THEN UpperChar(s[i]) ELSE s[i]]

\* s with its first letter upper-cased and every other letter lower-cased
FirstUpRestLower(s) ==
    [i \in 1..Len(s) |-> IF i = 1 THEN UpperChar(s[i]) ELSE LowerChar(s[i])]

ReferenceShape(inferred(_)) ==
    (ctor.called /\ ctor.obj # None) =>
        \A i \in 1..Len(ctor.obj[1].fields) :
            LET f == ctor.obj[1].fields[i]
                d == ctor.fields[i]
            IN  /\ f.is_reference <=> f.type \in {"references", "belongs_to"}
                /\ ~f.is_reference => f.referenced_model = None
                /\ f.is_reference =>
                      f.referenced_model =
                          IF BracketedModel(d) # None THEN BracketedModel(d)
                          ELSE Some(inferred(NameText(d)))

\* C4 as stated: is_reference marks exactly the references / belongs_to
\* fields; their referenced_model is the bracketed name when given, else the
\* field name with its first letter capitalised; other fields have None.
C4_FirstLetterCapitalised == ReferenceShape(FirstLetterUp)

\* C4 amended: as C4, but the inferred model is the field name with its
\* first letter upper-cased and all its other letters lower-cased.
C4_CapitalizeLowersRest == ReferenceShape(FirstUpRestLower)

C4_Witness ==
    /\ ctor.called
    /\ ctor.obj # None
    /\ Len(ctor.fields) = 2
    /\ ctor.fields[1] = F_blogPost \o <<":", "references">>
    /\ ctor.fields[2] = F_user \o <<":", "belongs_to", "[", "Author", "]">>
    /\ ctor.obj[1].fields[1].referenced_model
          = Some(<<"B","l","o","g","p","o","s","t">>)
    /\ ctor.obj[1].fields[2].referenced_model = Some(<<"Author">>)

\* the plural the documentation describes
Consonants == { Lowers[i] : i \in LetterIdx } \ {"a", "e", "i", "o", "u"}

DescribedPlural(w) ==
    LET n     == Len(w)
        last  == IF n >= 1 THEN <<w[n]>> ELSE << >>
        last2 == IF n >= 2 THEN <<w[n - 1], w[n]>> ELSE << >>
    IN  IF w = <<"p","e","r","s","o","n">> THEN <<"p","e","o","p","l","e">>
        ELSE IF w = <<"c","h","i","l","d">> THEN <<"c","h","i","l","d","r","e","n">>
        ELSE IF w = <<"m","a","n">> THEN <<"m","e","n">>
        ELSE IF w = <<"w","o","m","a","n">> THEN <<"w","o","m","e","n">>
        ELSE IF w = <<"t","o","o","t","h">> THEN <<"t","e","e","t","h">>
        ELSE IF w = <<"f","o","o","t">> THEN <<"f","e","e","t">>
        ELSE IF w = <<"m","o","u","s","e">> THEN <<"m","i","c","e">>
        ELSE IF w = <<"g","o","o","s","e">> THEN <<"g","e","e","s","e">>
        ELSE IF n >= 2 /\ w[n] = "y" /\ w[n - 1] \in Consonants
             THEN SubSeq(w, 1, n - 1) \o <<"i","e","s">>
        ELSE IF \/ last \in { <<"s">>, <<"x">>, <<"z">>, <<"o">> }
                \/ last2 \in { <<"s","h">>, <<"c","h">> }
             THEN w \o <<"e","s">>
        ELSE IF last = <<"f">> THEN SubSeq(w, 1, n - 1) \o <<"v","e","s">>
        ELSE IF last2 = <<"f","e">> THEN SubSeq(w, 1, n - 2) \o <<"v","e","s">>
        ELSE w \o <<"s">>

\* C5: name_plural is the described plural of the lower-cased model name:
\* the irregular plural of the eight irregular words, else the first
\* matching suffix rule (consonant+y -> ies; s, sh, ch, x, z, o -> +es;
\* f -> ves; fe -> ves; else +s).
C5_NamePlural ==
    (ctor.called /\ ctor.obj # None) =>
        /\ ctor.obj[1].name_lower
              = [i \in 1..Len(ctor.name) |-> LowerChar(ctor.name[i])]
        /\ ctor.obj[1].name_plural = DescribedPlural(ctor.obj[1].name_lower)

C5_Witness ==
    /\ ctor.called
    /\ ctor.name = <<"K","n","i","f","e">>
    /\ ctor.obj # None
    /\ ctor.obj[1].name_plural = <<"k","n","i","v","e","s">>

(***************************************************************************)
(* The claims about the scaffold command, stated on the latest run.        *)
(***************************************************************************)
Ran == lastRun # None
L == lastRun[1]

LowerName(n) == [i \in 1..Len(n) |-> LowerChar(n[i])]
PluralName(n) == DescribedPlural(LowerName(n))

\* the eight files of the scaffold of model n, in the documented order
ExpectedFiles(n) ==
    << <<<<"app">>, <<"models">>, LowerName(n) \o <<".py">>>>,
       <<<<"app">>, <<"controllers">>, PluralName(n) \o <<".py">>>>,
       <<<<"app">>, <<"forms">>, LowerName(n) \o <<".py">>>>,
       <<<<"app">>, <<"views">>, PluralName(n), <<"index.html">>>>,
       <<<<"app">>, <<"views">>, PluralName(n), <<"show.html">>>>,
       <<<<"app">>, <<"views">>, PluralName(n), <<"new.html">>>>,
       <<<<"app">>, <<"views">>, PluralName(n), <<"edit.html">>>>,
       <<<<"app">>, <<"views">>, PluralName(n), <<"_form.html">>>> >>

Range(seq) == { seq[i] : i \in 1..Len(seq) }

\* the model, controller and form file of the scaffold of model n
GuardedFiles(n) == { ExpectedFiles(n)[i] : i \in 1..3 }

AllValid(fields) == \A i \in 1..Len(fields) : ValidDef(fields[i])

FileExistsErrors == { "FileExistsError: Model already exists",
                      "FileExistsError: Controller already exists",
                      "FileExistsError: Form already exists" }

\* C6: write_files called when none of the eight target files exists
\* returns the eight paths in the documented order, creates exactly these
\* eight files, and each of them exists afterwards.
C6_EightFilesInOrder ==
    (/\ Ran
     /\ L.wf # "not called"
     /\ Range(ExpectedFiles(L.model_name)) \cap DOMAIN L.pre_files = {})
        => /\ L.wf = "none"
           /\ L.created = ExpectedFiles(L.model_name)
           /\ Cardinality(Range(L.created)) = 8
           /\ Range(L.created) \subseteq DOMAIN files
           /\ DOMAIN files \ DOMAIN L.pre_files = Range(L.created)

C6_Witness ==
    /\ Ran
    /\ L.wf = "none"
    /\ Len(L.created) = 8
    /\ Range(ExpectedFiles(L.model_name)) \cap DOMAIN L.pre_files = {}
    /\ L.model_name = N_Leaf

\* C7: write_files called when the model, the controller or the form file
\* exists raises FileExistsError and leaves that file's text unchanged, and
\* the command exits with code 1 and reports 'already exists'.
C7_ExistingFileKept ==
    (/\ Ran
     /\ L.wf # "not called"
     /\ GuardedFiles(L.model_name) \cap DOMAIN L.pre_files # {})
        => /\ L.wf \in FileExistsErrors
           /\ \A p \in GuardedFiles(L.model_name) \cap DOMAIN L.pre_files :
                 p \in DOMAIN files /\ files[p] = L.pre_files[p]
           /\ L.exit_code = 1
           /\ L.out \cap FileExistsErrors # {}

C7_Witness ==
    /\ Ran
    /\ L.wf = "FileExistsError: Controller already exists"
    /\ L.exit_code = 1
    /\ files[ExpectedFiles(L.model_name)[2]] = OldText

SectionShapes ==
    { sh \in InitShapes : sh.cmt /\ sh.imps # << >> /\ sh.regs # << >> }

ClaimedImportLine(n) ==
    <<"from app.controllers.">> \o PluralName(n) \o <<" import ">>
        \o PluralName(n) \o <<"_bp">>

ClaimedRegisterCall(n) ==
    <<"app.register_blueprint(">> \o PluralName(n) \o <<"_bp", ", url_prefix='/">>
        \o PluralName(n) \o <<"'", ")">>

\* C9: after a successful run without --skip-init on an init file with a
\* '# Register blueprints' section, blueprint imports and register_blueprint
\* calls, the file has the import line and the register_blueprint call of
\* the new blueprint, and every import and call it had before.
C9_BlueprintRegistered ==
    (/\ Ran
     /\ L.exit_code = 0
     /\ ~L.skip_init
     /\ AppInitPath \in DOMAIN L.pre_files)
        => \A sh \in SectionShapes :
              TextOf(sh) = L.pre_files[AppInitPath] =>
                 LET new == files[AppInitPath]
                 IN  /\ Contains(new, ClaimedImportLine(L.model_name) \o <<"\n">>)
                     /\ Contains(new, ClaimedRegisterCall(L.model_name))
                     /\ \A i \in 1..Len(sh.imps) :
                           Contains(new, BpImportLine(sh.imps[i]))
                     /\ \A i \in 1..Len(sh.regs) :
                           Contains(new, RegCallLine(sh.regs[i]))

\* C10: with --skip-init update_app_init is not called and app/__init__.py
\* is the same before and after the run, while a run that finds the app
\* directory, valid field definitions and no model, controller or form file
\* in its way still creates the eight files and exits with code 0.
C10_SkipInitLeavesInit ==
    (Ran /\ L.skip_init)
        => /\ L.upd = "not called"
           /\ AppInitPath \in DOMAIN files <=> AppInitPath \in DOMAIN L.pre_files
           /\ AppInitPath \in DOMAIN files
                 => files[AppInitPath] = L.pre_files[AppInitPath]
           /\ (/\ AllValid(L.fields)
               /\ AppDir \in L.pre_dirs
               /\ GuardedFiles(L.model_name) \cap DOMAIN L.pre_files = {})
                 => /\ L.exit_code = 0
                    /\ L.created = ExpectedFiles(L.model_name)
                    /\ Range(ExpectedFiles(L.model_name)) \subseteq DOMAIN files

C10_Witness ==
    /\ Ran
    /\ L.skip_init
    /\ L.exit_code = 0
    /\ Len(L.created) = 8
    /\ AppInitPath \in DOMAIN files
    /\ files[AppInitPath] = TextOf(StandardShape)

(***************************************************************************)
(* The claims about the shell context and the value of update_app_init.    *)
(***************************************************************************)
ClaimedModelImport(n) ==
    <<"from app.models.">> \o LowerName(n) \o <<" import ">> \o n

\* an entry for model n in a dictionary, written with either kind of quotes
ClaimedDictEntries(n) ==
    { <<", \"">> \o n \o <<"\": ">> \o n,
      <<", '">> \o n \o <<"': ">> \o n }

\* the run put the import of the model into the init file
ModelImportInserted ==
    /\ Ran
    /\ L.upd = "True"
    /\ ~Contains(L.pre_files[AppInitPath], ClaimedModelImport(L.model_name))
    /\ Contains(files[AppInitPath], ClaimedModelImport(L.model_name))

\* C11: whenever a run inserts 'from app.models.<lower> import <Name>' into
\* the init file, the dictionary that make_shell_context returns has an
\* entry for <Name> afterwards.
C11_ImportAndEntryTogether ==
    ModelImportInserted
        => \E e \in ClaimedDictEntries(L.model_name) :
              Contains(files[AppInitPath], e)

(***************************************************************************)
(* The generated application: magic links.  app/models/user.py and         *)
(* app/controllers/auth.py of the flask-app template.  Time is counted in  *)
(* minutes.  secrets.token_urlsafe(32) gives a token that was never given  *)
(* before: the k-th token handed out is the number k.  A row of the users  *)
(* table is a record of its columns, its id is its index in users.         *)
(***************************************************************************)
MagicLinkMinutes == 15
MaxNow == 16
MaxTokens == 1

Clients == {"c1", "c2"}
Tokens == 1..MaxTokens

\* email addresses as <<local part, domain>>
E_ann == <<"ann", "x.org">>
E_ann2 == <<"ann", "y.org">>
Emails == {E_ann, E_ann2}

\* User(username=..., email=...) with the column defaults
NewUser(username, email) ==
    [username |-> username, email |-> email, password_hash |-> None,
     magic_link_token |-> None, magic_link_expires |-> None,
     is_active |-> TRUE, is_admin |-> FALSE]

\* A slip: the link lives one minute longer.
generate_magic_link_token_OneMore(u, token, t) ==
    [u EXCEPT !.magic_link_token = Some(token),
              !.magic_link_expires = Some(t + MagicLinkMinutes + 1)]

\* A slip: a user who has a token keeps it.
generate_magic_link_token_KeepOld(u, token, t) ==
    IF u.magic_link_token # None THEN u
    ELSE [u EXCEPT !.magic_link_token = Some(token),
                   !.magic_link_expires = Some(t + MagicLinkMinutes)]

\* User.generate_magic_link_token (user.py 57-61) at time t
generate_magic_link_token(u, token, t) ==
    [u EXCEPT !.magic_link_token = Some(token),
              !.magic_link_expires = Some(t + MagicLinkMinutes)]

\* A slip: the link is dead already at the minute it expires.
verify_magic_link_token_Strict(u, token, t) ==
    IF u.magic_link_token = None \/ u.magic_link_expires = None THEN FALSE
    ELSE IF u.magic_link_token[1] # token THEN FALSE
    ELSE IF t >= u.magic_link_expires[1] THEN FALSE
    ELSE TRUE

\* User.verify_magic_link_token (user.py 63-71) at time t
verify_magic_link_token(u, token, t) ==
    IF u.magic_link_token = None \/ u.magic_link_expires = None THEN FALSE
    ELSE IF u.magic_link_token[1] # token THEN FALSE
    ELSE IF t > u.magic_link_expires[1] THEN FALSE
    ELSE TRUE

\* A slip: the token is kept.
clear_magic_link_token_Keep(u) == u

\* User.clear_magic_link_token (user.py 73-76)
clear_magic_link_token(u) ==
    [u EXCEPT !.magic_link_token = None, !.magic_link_expires = None]

\* User.query.filter_by(...).first(): the id of the first row, 0 if none
FirstId(rows, P(_)) ==
    LET ids == { i \in DOMAIN rows : P(rows[i]) }
    IN  IF ids = {} THEN 0 ELSE CHOOSE i \in ids : \A j \in ids : i <= j

\* A slip: the number appended is the number of users.
UniqueUsername_Count(rows, base, counter) ==
    IF FirstId(rows, LAMBDA u : u.username = base) = 0 THEN base
    ELSE base \o ToString(Len(rows))

\* auth.py 61-67: the first of base, base1, base2, ... no user has
RECURSIVE UniqueUsername(_, _, _)
UniqueUsername(rows, base, counter) ==
    LET username == IF counter = 0 THEN base
                    ELSE base \o ToString(counter)
    IN  IF FirstId(rows, LAMBDA u : u.username = username) = 0
        THEN username
        ELSE UniqueUsername(rows, base, counter + 1)

FlashDashboard == "redirect to main.dashboard"
FlashInvalid == "Invalid or expired magic link."
FlashLoggedIn == "Successfully logged in!"

\* what a browser got back from verify_magic_link: the token of the URL,
\* whether that token had logged a user in before the request began,
\* whether the browser was anonymous then, the message flashed, the user
\* the browser is logged in as afterwards, and the token and expiry the
\* user row had when the response left
Response(token, stale, anonymous, flash, user, stored) ==
    [token |-> token, stale |-> stale, anonymous |-> anonymous,
     flash |-> flash, user |-> user, stored |-> stored]

\* magic_link (auth.py 47-129), a POST with a valid form: the user is made
\* if there is none, gets a new token, and the link is mailed or printed.
MagicLink(c, email) ==
    /\ req[c] = None
    /\ session[c] = None
    /\ \E table \in { IF FirstId(users, LAMBDA u : u.email = email) # 0
                      THEN users
                      ELSE Append(users,
                             NewUser(UniqueUsername(users, email[1], 0),
                                     email)) } :
          users' = [table EXCEPT ![FirstId(table, LAMBDA u : u.email = email)] =
                       generate_magic_link_token(@, Len(issued) + 1, now)]
    /\ issued' = Append(issued, now)
    /\ UNCHANGED <<now, session, req, resp, spent>>
    /\ outbox' = Append(outbox, [to |-> email, token |-> Len(issued) + 1,
                                 minutes |-> config])
    /\ UNCHANGED config
    /\ UNCHANGED ElseThanAuth

\* verify_magic_link (auth.py 132-143): up to the query for the user; the
\* links followed are links that were handed out
VerifyQuery(c, token) ==
    /\ req[c] = None
    /\ token <= Len(issued)
    /\ IF session[c] # None
       THEN /\ resp' = [resp EXCEPT ![c] = Some(Response(token,
                           token \in spent, FALSE, FlashDashboard, session[c],
                           << >>))]
            /\ UNCHANGED req
       ELSE IF FirstId(users, LAMBDA u : u.magic_link_token = Some(token)) = 0
       THEN /\ resp' = [resp EXCEPT ![c] = Some(Response(token,
                           token \in spent, TRUE, FlashInvalid, None, << >>))]
            /\ UNCHANGED req
       ELSE /\ req' = [req EXCEPT ![c] = Some(
                         [token |-> token, stale |-> token \in spent,
                          id |-> FirstId(users,
                                   LAMBDA u : u.magic_link_token = Some(token)),
                          user |-> users[FirstId(users,
                                   LAMBDA u : u.magic_link_token = Some(token))]])]
            /\ UNCHANGED resp
    /\ UNCHANGED <<users, now, session, issued, spent>>
    /\ UNCHANGED <<config, outbox>>
    /\ UNCHANGED ElseThanAuth

\* verify_magic_link (auth.py 145-160): the user object loaded by the query
\* is verified; the token is cleared, the session committed and the user
\* logged in.  login_user refuses a user who is not active.
VerifyLogin(c) ==
    /\ req[c] # None
    /\ \E r \in { req[c][1] } :
          IF ~verify_magic_link_token(r.user, r.token, now)
          THEN /\ resp' = [resp EXCEPT ![c] = Some(Response(r.token,
                              r.stale, TRUE, FlashInvalid, None, << >>))]
               /\ UNCHANGED <<users, session, spent>>
          ELSE /\ users' = [users EXCEPT ![r.id] = clear_magic_link_token(@)]
               /\ session' = [session EXCEPT ![c] =
                                 IF users[r.id].is_active THEN Some(r.id)
                                 ELSE None]
               /\ spent' = IF users[r.id].is_active
                           THEN spent \cup {r.token} ELSE spent
               /\ resp' = [resp EXCEPT ![c] = Some(Response(r.token,
                              r.stale, TRUE, FlashLoggedIn, session'[c],
                              <<users'[r.id].magic_link_token,
                                users'[r.id].magic_link_expires>>))]
    /\ req' = [req EXCEPT ![c] = None]
    /\ UNCHANGED <<now, issued>>
    /\ UNCHANGED <<config, outbox>>
    /\ UNCHANGED ElseThanAuth

\* logout (auth.py 181-187)
Logout(c) ==
    /\ req[c] = None
    /\ session[c] # None
    /\ session' = [session EXCEPT ![c] = None]
    /\ UNCHANGED <<users, now, req, resp, issued, spent>>
    /\ UNCHANGED <<config, outbox>>
    /\ UNCHANGED ElseThanAuth

\* the minutes looked at: the first two, and from the minute the first
\* links expire on
Instants == { t \in 0..MaxNow : t <= 1 \/ t >= MagicLinkMinutes }

\* time passes
Tick(t) ==
    /\ t > now
    /\ now' = t
    /\ UNCHANGED <<users, session, req, resp, issued, spent>>
    /\ UNCHANGED <<config, outbox>>
    /\ UNCHANGED ElseThanAuth

\* the application starts with one user, active or not, that has no token
InitAuth ==
    /\ ScaffoldIdle
    /\ CmdIdle
    /\ TrackIdle
    /\ AdminIdle
    /\ \E active \in BOOLEAN :
          users = << [NewUser("ann", E_ann) EXCEPT !.is_active = active] >>
    /\ now = 0
    /\ session = [c \in Clients |-> None]
    /\ req = [c \in Clients |-> None]
    /\ resp = [c \in Clients |-> None]
    /\ issued = << >>
    /\ spent = {}
    /\ config = MAGIC_LINK_EXPIRY_MINUTES
    /\ outbox = << >>

NextAuth ==
    \/ \E c \in Clients, email \in Emails :
          Len(issued) < MaxTokens /\ MagicLink(c, email)
    \/ \E c \in Clients, token \in Tokens : VerifyQuery(c, token)
    \/ \E c \in Clients : VerifyLogin(c)
    \/ \E c \in Clients : Logout(c)
    \/ \E t \in Instants : Tick(t)

SpecAuth == InitAuth /\ [][NextAuth]_vars

(***************************************************************************)
(* The claims about magic links, stated on the latest responses.           *)
(***************************************************************************)
\* C12: a verify_magic_link response that logged a user in left that user
\* with no token and no expiry, and a verify_magic_link request that an
\* anonymous browser makes with a token that has logged a user in before is
\* answered 'Invalid or expired magic link' and logs nobody in.
C12_TokenSingleUse ==
    \A c \in Clients :
        resp[c] # None =>
            /\ (resp[c][1].flash = FlashLoggedIn /\ resp[c][1].user # None)
                  => resp[c][1].stored = <<None, None>>
            /\ (resp[c][1].stale /\ resp[c][1].anonymous)
                  => /\ resp[c][1].flash = FlashInvalid
                     /\ resp[c][1].user = None

\* a browser was turned away with a token that had logged a user in, while
\* another browser is logged in
C12_Witness ==
    \E c, d \in Clients :
        /\ session[d] # None
        /\ resp[d] # None
        /\ resp[d][1].flash = FlashLoggedIn
        /\ resp[c] # None
        /\ resp[c][1].token = resp[d][1].token
        /\ resp[c][1].stale
        /\ resp[c][1].anonymous
        /\ resp[c][1].flash = FlashInvalid
        /\ session[c] = None

\* C13: verify_magic_link_token(token) is true exactly when the user has a
\* token and an expiry, the token is the one supplied and the time is not
\* later than the expiry; the expiry of a stored token is 15 minutes after
\* the minute the token was generated.
C13_TokenTimeLimited ==
    \A i \in DOMAIN users :
        /\ \A token \in Tokens :
              verify_magic_link_token(users[i], token, now)
                  <=> /\ users[i].magic_link_token # None
                      /\ users[i].magic_link_expires # None
                      /\ users[i].magic_link_token = <<token>>
                      /\ ~(now > users[i].magic_link_expires[1])
        /\ users[i].magic_link_token # None
              => users[i].magic_link_expires
                    = <<issued[users[i].magic_link_token[1]] + 15>>

\* a user holds a token at the very minute it expires, and it still verifies
C13_Witness ==
    \E i \in DOMAIN users :
        /\ users[i].magic_link_token # None
        /\ now = users[i].magic_link_expires[1]
        /\ issued[users[i].magic_link_token[1]] = 1
        /\ verify_magic_link_token(users[i], users[i].magic_link_token[1], now)

(***************************************************************************)
(* add_user_to_app (src/src/flasktrack/utils.py 70-158) and the add-admin  *)
(* command (src/src/flasktrack/cli.py 163-234).  proj tells whether the    *)
(* application directory has app.py and app/ and whether its app package   *)
(* can be imported; users is the table of its database.                    *)
(***************************************************************************)
\* generate_password_hash(password); the salt is left out
generate_password_hash(password) == <<"hash of", password>>

\* User.set_password (user.py 35-37)
set_password(u, password) ==
    [u EXCEPT !.password_hash = Some(generate_password_hash(password))]

StderrExists == <<"ERROR: User with this username or email ", "already exists">>
StderrImport == <<"ModuleNotFoundError: No module named 'app'">>
StderrTable == <<"sqlite3.OperationalError: table users ", "already exists">>

\* The script of utils.py 89-126 run to its end: exit code, stderr and the
\* users table it leaves.
HelperScript(p, table, username, email, password) ==
    IF ~p.importable
    THEN [returncode |-> 1, stderr |-> StderrImport, users |-> table]
    ELSE IF FirstId(table, LAMBDA u : u.username = username \/ u.email = email) # 0
    THEN [returncode |-> 1, stderr |-> StderrExists, users |-> table]
    ELSE [returncode |-> 0, stderr |-> << >>,
          users |-> Append(table, set_password(NewUser(username, email),
                                               password))]

\* what the operating system and the person at the keyboard make of the
\* subprocess
Environments ==
    {"runs", "cannot start", "killed", "database broken", "interrupted"}

\* subprocess.run (utils.py 135-140)
SubprocessRun(env, p, table, username, email, password) ==
    CASE env = "runs" ->
           [raised |-> "none"] @@ HelperScript(p, table, username, email, password)
      [] env = "cannot start" ->
           [raised |-> "OSError", returncode |-> 0, stderr |-> << >>,
            users |-> table]
      [] env = "killed" ->
           [raised |-> "none", returncode |-> 137, stderr |-> << >>,
            users |-> table]
      [] env = "database broken" ->
           [raised |-> "none", returncode |-> 1, stderr |-> StderrTable,
            users |-> table]
      [] env = "interrupted" ->
           [raised |-> "KeyboardInterrupt", returncode |-> 0,
            stderr |-> << >>, users |-> table]

\* the parameters of add_user_to_app (utils.py 70)
AddUserToAppParams == {"app_path", "username", "email", "password"}

ErrUnexpectedKeyword ==
    "TypeError: add_user_to_app() got an unexpected keyword argument"
ErrUnknown == "Exception: Unknown error occurred"
ErrStderr == "Exception: stderr of the script"

\* the temporary script file: whether tempfile.NamedTemporaryFile made it,
\* and whether it is there
NoScript == [created |-> FALSE, exists |-> FALSE]
NewScript == [created |-> TRUE, exists |-> TRUE]

\* os.unlink(temp_script)
Unlink(script) == [script EXCEPT !.exists = FALSE]

\* KeyboardInterrupt is a BaseException and no Exception
IsException(raised) == raised # "KeyboardInterrupt"

\* A slip: the handler does not clean up.
CleanUp_Forgotten(raised, script) == script

\* utils.py 154-157: the handler 'except Exception' unlinks the script if
\* it still exists; what it does not catch passes it by
CleanUp(raised, script) ==
    IF IsException(raised) /\ script.exists THEN Unlink(script) ELSE script

\* A slip: every exit of the script counts as success.
add_user_to_app_AlwaysTrue(kwargs, env, p, table) ==
    [raised |-> "none", ret |-> "True", temp_script |-> Unlink(NewScript),
     proc |-> Some(SubprocessRun(env, p, table, kwargs.username, kwargs.email,
                                 kwargs.password)),
     users |-> SubprocessRun(env, p, table, kwargs.username, kwargs.email,
                             kwargs.password).users]

\* add_user_to_app called with the keyword arguments kwargs: what it raises
\* ("none" when it returns), what it returns, the finished subprocess, the
\* users table afterwards, and the temporary script file afterwards.
add_user_to_app(kwargs, env, p, table) ==
    IF ~(DOMAIN kwargs \subseteq AddUserToAppParams)
    THEN [raised |-> ErrUnexpectedKeyword, ret |-> "none", proc |-> None,
          users |-> table, temp_script |-> NoScript]
    ELSE LET r == SubprocessRun(env, p, table, kwargs.username, kwargs.email,
                                kwargs.password)
         IN  IF r.raised # "none"
             THEN [raised |-> r.raised, ret |-> "none", proc |-> None,
                   users |-> r.users,
                   temp_script |-> CleanUp(r.raised, NewScript)]
             ELSE IF r.returncode = 0
             THEN [raised |-> "none", ret |-> "True", proc |-> Some(r),
                   users |-> r.users, temp_script |-> Unlink(NewScript)]
             ELSE IF Contains(r.stderr, <<"already exists">>)
             THEN [raised |-> "none", ret |-> "False", proc |-> Some(r),
                   users |-> r.users, temp_script |-> Unlink(NewScript)]
             ELSE [raised |-> IF r.stderr # << >> THEN ErrStderr ELSE ErrUnknown,
                   ret |-> "none", proc |-> Some(r), users |-> r.users,
                   temp_script |-> CleanUp(IF r.stderr # << >> THEN ErrStderr
                                           ELSE ErrUnknown,
                                           Unlink(NewScript))]

MsgAdding == "Adding admin user:"
MsgNoFlaskApp == "No Flask application found at"
MsgNoAppDirAt == "No 'app' directory found at"
MsgAdminAdded == "Admin user '<username>' added successfully!"
MsgRole == "Role: Administrator"
MsgFailedAdd == "Failed to add admin. User might already exist."
MsgErrorAdding == "Error adding admin:"
MsgAborted == "Aborted!"

\* cli.py 217-234: what add-admin makes of the call r of add_user_to_app
AddAdminReport(r) ==
    IF r.raised # "none" /\ ~IsException(r.raised)
    THEN \* the handler of line 232 does not see it; the command is aborted
         [exit_code |-> 1, out |-> {MsgAdding, MsgAborted},
          raised |-> r.raised, ret |-> r.ret, users |-> r.users]
    ELSE IF r.raised # "none"
    THEN [exit_code |-> 1, out |-> {MsgAdding, MsgErrorAdding, r.raised},
          raised |-> r.raised, ret |-> r.ret, users |-> r.users]
    ELSE IF r.ret = "True"
    THEN [exit_code |-> 0, out |-> {MsgAdding, MsgAdminAdded, MsgRole},
          raised |-> r.raised, ret |-> r.ret, users |-> r.users]
    ELSE \* typer.Exit(1) is an Exception: the handler of line 232 sees it too
         [exit_code |-> 1, out |-> {MsgAdding, MsgFailedAdd, MsgErrorAdding},
          raised |-> r.raised, ret |-> r.ret, users |-> r.users]

\* the add-admin command (cli.py 163-234); password is the --password
\* option, typed what is typed at the prompt when the option is not given
add_admin(username, email, password, typed, env, p, table) ==
    IF ~p.app_py
    THEN [exit_code |-> 1, out |-> {MsgAdding, MsgNoFlaskApp},
          raised |-> "none", ret |-> "not called", users |-> table]
    ELSE IF ~p.app_dir
    THEN [exit_code |-> 1, out |-> {MsgAdding, MsgNoAppDirAt},
          raised |-> "none", ret |-> "not called", users |-> table]
    ELSE AddAdminReport(
             add_user_to_app(
                 [app_path |-> "app_path", username |-> username,
                  email |-> email,
                  password |-> IF password = None THEN typed ELSE password[1],
                  is_admin |-> TRUE],
                 env, p, table))

(***************************************************************************)
(* The commands are run on an application directory.                       *)
(***************************************************************************)
MaxUsers == 2

U_admin == "adminuser"
E_admin == <<"admin", "example.com">>
Usernames == {U_admin, "ann"}
CmdEmails == {E_admin, E_ann}
PasswordOptions == {None, Some("admin123")}
Typed == "typed at the prompt"

\* flasktrack add-admin USERNAME EMAIL [--password PASSWORD]
AddAdmin(username, email, password, env) ==
    /\ Len(users) < MaxUsers
    /\ \E r \in { add_admin(username, email, password, Typed, env, proj, users) } :
          /\ users' = r.users
          /\ lastCall' = Some([op |-> "add-admin", username |-> username,
                               email |-> email, env |-> env,
                               exit_code |-> r.exit_code, out |-> r.out,
                               raised |-> r.raised, ret |-> r.ret,
                               proc |-> None, pre_users |-> users])
    /\ UNCHANGED proj
    /\ UNCHANGED ElseThanCmd

\* add_user_to_app(app_path=..., username=..., email=..., password=...)
CallAddUserToApp(username, email, password, env) ==
    /\ Len(users) < MaxUsers
    /\ \E r \in { add_user_to_app([app_path |-> "app_path",
                                   username |-> username, email |-> email,
                                   password |-> password],
                                  env, proj, users) } :
          /\ users' = r.users
          /\ lastCall' = Some([op |-> "add_user_to_app", username |-> username,
                               email |-> email, env |-> env,
                               exit_code |-> 0, out |-> {},
                               raised |-> r.raised, ret |-> r.ret,
                               proc |-> r.proc, pre_users |-> users,
                               temp_script |-> r.temp_script])
    /\ UNCHANGED proj
    /\ UNCHANGED ElseThanCmd

InitCmd ==
    /\ ScaffoldIdle
    /\ WebIdle
    /\ TrackIdle
    /\ AdminIdle
    /\ proj \in { p \in [app_py : BOOLEAN, app_dir : BOOLEAN,
                         importable : BOOLEAN] : p.importable => p.app_dir }
    /\ users \in { << >>, << set_password(NewUser("ann", E_ann), "secret") >> }
    /\ lastCall = None

NextCmd ==
    \/ \E username \in Usernames, email \in CmdEmails,
          password \in PasswordOptions, env \in Environments :
            AddAdmin(username, email, password, env)
    \/ \E username \in Usernames, email \in CmdEmails, env \in Environments :
            CallAddUserToApp(username, email, "password123", env)

SpecCmd == InitCmd /\ [][NextCmd]_vars

(***************************************************************************)
(* The claims about add-admin and add_user_to_app, stated on the latest    *)
(* call.                                                                   *)
(***************************************************************************)
Called == lastCall # None
K == lastCall[1]

\* C14: add-admin run on a directory that has app.py and app/, whose
\* application can be imported and has no user with the username or the
\* email, exits with code 0, reports "Admin user '<username>' added
\* successfully!" and leaves a user with that username whose is_admin flag
\* is true.
C14_AdminCreated ==
    (/\ Called
     /\ K.op = "add-admin"
     /\ K.env = "runs"
     /\ proj.app_py /\ proj.app_dir /\ proj.importable
     /\ \A i \in DOMAIN K.pre_users :
           /\ K.pre_users[i].username # K.username
           /\ K.pre_users[i].email # K.email)
        => /\ K.exit_code = 0
           /\ MsgAdminAdded \in K.out
           /\ \E i \in DOMAIN users :
                 users[i].username = K.username /\ users[i].is_admin

Suffixes == {".py", ".txt"}

\* the names a module binds, in the order dir() lists them
DirNames == <<"app", "create_app", "make_app">>

FactoryNames == {"create_app", "make_app"}

Raisable == {"Exception", "SystemExit"}

\* what a name of the module is bound to: a Flask instance, a function
\* (with what calling it without arguments does) or any other value
Bindings ==
    {[kind |-> "Flask", call |-> "none"], [kind |-> "value", call |-> "none"]}
    \cup [kind : {"function"}, call : {"Flask", "value"} \cup Raisable]

Unbound == [kind |-> "unbound", call |-> "none"]

Modules ==
    [attrs : [1..Len(DirNames) -> Bindings \cup {Unbound}],
     raises : {"none"} \cup Raisable]

\* isinstance(attr, Flask)
IsFlask(b) == b.kind = "Flask"

\* callable(attr): a Flask instance is callable as well
Callable(b) == b.kind \in {"function", "Flask"}

\* the application bound to, or made by, the i-th name of the file
AppOfFile(i) == [name |-> "flask_app", made |-> "file", attr |-> DirNames[i]]

\* Flask("flasktrack")
FreshApp == [name |-> "flasktrack", made |-> "_load_app", attr |-> "none"]

\* the first loop: the first name, in dir() order, bound to a Flask instance
FirstInstance(mod) ==
    LET found == { i \in 1..Len(DirNames) : IsFlask(mod.attrs[i]) }
    IN  IF found = {} THEN None
        ELSE Some(AppOfFile(CHOOSE i \in found : \A j \in found : i <= j))

\* the second loop, from the i-th name on: the factories are called in
\* dir() order until one returns a Flask instance; an Exception of a factory
\* is swallowed, anything else it raises leaves the loop
RECURSIVE TryFactories(_, _)
TryFactories(mod, i) ==
    IF i > Len(DirNames) THEN [app |-> None, raised |-> "none"]
    ELSE IF ~(Callable(mod.attrs[i]) /\ DirNames[i] \in FactoryNames)
         THEN TryFactories(mod, i + 1)
    ELSE IF mod.attrs[i].call = "Flask"
         THEN [app |-> Some(AppOfFile(i)), raised |-> "none"]
    ELSE IF mod.attrs[i].call \in {"value", "Exception", "none"}
         THEN TryFactories(mod, i + 1)
    ELSE [app |-> None, raised |-> mod.attrs[i].call]

\* the try block of _load_app: what self.app is after it and what leaves it
LoadFile(mod) ==
    IF mod.raises # "none" THEN [app |-> None, raised |-> mod.raises]
    ELSE IF FirstInstance(mod) # None
         THEN [app |-> FirstInstance(mod), raised |-> "none"]
    ELSE TryFactories(mod, 1)

\* except Exception: swallowed
ExceptException(r) ==
    IF r.raised = "Exception" THEN [r EXCEPT !.raised = "none"] ELSE r

\* FlaskTracker._load_app: self.app after it, and what it raised
_load_app(file) ==
    LET r == IF file.suffix = ".py" /\ file.exists
             THEN ExceptException(LoadFile(file.body))
             ELSE [app |-> None, raised |-> "none"]
    IN  IF r.raised # "none" THEN r
        ELSE IF r.app = None THEN [r EXCEPT !.app = Some(FreshApp)]
        ELSE r

\* FlaskTracker(app_path, verbose): the object after __init__, or what
\* __init__ raised
NewTracker(verbose) ==
    /\ \E r \in {_load_app(disk)} :
          tracker' = Some([verbose |-> verbose, app |-> r.app,
                           raised |-> r.raised])
    /\ UNCHANGED disk
    /\ UNCHANGED ElseThanTrack

InitTrack ==
    /\ ScaffoldIdle
    /\ AuthIdle
    /\ CmdIdle
    /\ AdminIdle
    /\ disk \in [suffix : Suffixes, exists : BOOLEAN, body : Modules]
    /\ tracker = None

NextTrack == \E verbose \in BOOLEAN : NewTracker(verbose)

SpecTrack == InitTrack /\ [][NextTrack]_vars

\* the file is an existing .py file that can be imported and defines a Flask
\* instance or a create_app/make_app factory returning one
DefinesApp(file) ==
    /\ file.suffix = ".py"
    /\ file.exists
    /\ file.body.raises = "none"
    /\ \E i \in 1..Len(DirNames) :
          \/ IsFlask(file.body.attrs[i])
          \/ /\ DirNames[i] \in FactoryNames
             /\ file.body.attrs[i].kind = "function"
             /\ file.body.attrs[i].call = "Flask"

\* C16: after constructing a FlaskTracker nothing was raised and tracker.app
\* is not None: it is an application of the file when the file is an
\* existing, importable .py file defining a Flask instance or a factory
\* returning one, and otherwise a fresh application named flasktrack
C16_AppNeverNone ==
    tracker # None =>
        /\ tracker[1].raised = "none"
        /\ tracker[1].app # None
        /\ IF DefinesApp(disk) THEN tracker[1].app[1].made = "file"
           ELSE tracker[1].app = Some(FreshApp)

(***************************************************************************)
(* The admin blueprint of the generated application: the edit form of a    *)
(* User record.                                                            *)
(*                                                                         *)
(* Usernames and passwords are spelled one character per lexeme, so that   *)
(* the Length validators count characters; an email address is the pair of *)
(* its local part and its domain, and a text without "@" has one part.     *)
(***************************************************************************)
MaxEdits == 2

\* the columns of the users table in the order of the model: name, primary
\* key, nullable, unique, type and length
Col(name, pk, nullable, unique, type, length) ==
    [name |-> name, primary_key |-> pk, nullable |-> nullable,
     unique |-> unique, type |-> type, length |-> length]

UserColumns ==
    << Col("id", TRUE, FALSE, FALSE, "Integer", 0),
       Col("username", FALSE, FALSE, TRUE, "String", 64),
       Col("email", FALSE, FALSE, TRUE, "String", 120),
       Col("password_hash", FALSE, TRUE, FALSE, "String", 255),
       Col("magic_link_token", FALSE, TRUE, TRUE, "String", 255),
       Col("magic_link_expires", FALSE, TRUE, FALSE, "DateTime", 0),
       Col("created_at", FALSE, TRUE, FALSE, "DateTime", 0),
       Col("updated_at", FALSE, TRUE, FALSE, "DateTime", 0),
       Col("is_active", FALSE, TRUE, FALSE, "Boolean", 0),
       Col("is_admin", FALSE, TRUE, FALSE, "Boolean", 0) >>

\* a row of the users table; its id is its place in the table
UserRow(u, created) ==
    [username |-> u.username, email |-> u.email,
     password_hash |-> u.password_hash,
     magic_link_token |-> u.magic_link_token,
     magic_link_expires |-> u.magic_link_expires,
     created_at |-> created, updated_at |-> created,
     is_active |-> u.is_active, is_admin |-> u.is_admin]

\* User.check_password
check_password(u, password) ==
    /\ u.password_hash # None
    /\ u.password_hash[1] = generate_password_hash(password)

skip_fields ==
    {"created_at", "updated_at", "magic_link_token", "magic_link_expires"}

\* generate_form_class: the names of the fields of the form of a model, in
\* the order they are declared
RECURSIVE ColumnFields(_, _, _)
ColumnFields(cols, is_user_model, i) ==
    IF i > Len(cols) THEN << >>
    ELSE IF cols[i].primary_key \/ cols[i].name \in skip_fields
         THEN ColumnFields(cols, is_user_model, i + 1)
    ELSE IF cols[i].name = "password_hash" /\ is_user_model
         THEN ColumnFields(cols, is_user_model, i + 1)
    ELSE << cols[i].name >> \o ColumnFields(cols, is_user_model, i + 1)

generate_form_class(cols, model_name) ==
    LET is_user_model == model_name = "User"
    IN  ColumnFields(cols, is_user_model, 1)
            \o (IF is_user_model THEN << "password" >> ELSE << >>)

\* get_field_for_column: the field of a Boolean column is a BooleanField,
\* whose data is a truth value and no text
IsBooleanField(cols, name) ==
    \E i \in 1..Len(cols) : cols[i].name = name /\ cols[i].type = "Boolean"

\* str.strip() of a text spelled in characters
RECURSIVE LStrip(_)
LStrip(s) == IF s # << >> /\ Head(s) = " " THEN LStrip(Tail(s)) ELSE s

RECURSIVE RStrip(_)
RStrip(s) ==
    IF s # << >> /\ s[Len(s)] = " " THEN RStrip(SubSeq(s, 1, Len(s) - 1))
    ELSE s

strip(s) == RStrip(LStrip(s))

\* wtforms validators on the text of a field
DataRequired(data) == strip(data) # << >>

Length(data, min, max) == Len(data) >= min /\ Len(data) <= max

Email(data) == Len(data) = 2 /\ data[1] # "" /\ data[2] # ""

\* validators=[Optional(), Length(min=6, max=128)]: Optional stops the chain
\* without an error on a text that is empty once stripped
PasswordValid(data) == strip(data) = << >> \/ Length(data, 6, 128)

\* form.validate() for the form of User
ValidateUserForm(form) ==
    /\ DataRequired(form.username) /\ Length(form.username, 0, 64)
    /\ form.email # << >> /\ Length(form.email, 0, 120) /\ Email(form.email)
    /\ PasswordValid(form.password)

\* the value model_edit assigns for the text of a field
AssignedValue(value) ==
    IF value = << >> \/ lower(value) = <<"n", "o", "n", "e">> THEN None
    ELSE value

\* the loop of model_edit over the fields, from the i-th on: the instance
\* after it and the attributes it assigned with setattr
RECURSIVE ApplyFields(_, _, _, _, _)
ApplyFields(fields, form, model_name, inst, i) ==
    IF i > Len(fields) THEN [inst |-> inst, written |-> {}]
    ELSE LET name == fields[i]
             data == form[name]
         IN  IF name = "password" /\ model_name = "User"
             THEN ApplyFields(fields, form, model_name,
                              IF data # << >> THEN set_password(inst, data)
                              ELSE inst, i + 1)
             ELSE IF name \in DOMAIN inst
             THEN LET value == IF IsBooleanField(UserColumns, name) THEN data
                               ELSE AssignedValue(data)
                      rest == ApplyFields(fields, form, model_name,
                                          [inst EXCEPT ![name] = value], i + 1)
                  IN  [rest EXCEPT !.written = @ \cup {name}]
             ELSE ApplyFields(fields, form, model_name, inst, i + 1)

\* db.session.commit() raises IntegrityError: a NOT NULL column holds None,
\* or a unique column holds the value of another row
IntegrityError(rows, id, inst) ==
    \/ inst.username = None \/ inst.email = None
    \/ \E j \in 1..Len(rows) :
          /\ j # id
          /\ \/ rows[j].username = inst.username
             \/ rows[j].email = inst.email

StatusNotFound == 404
StatusRendered == 200
StatusRedirect == 302

\* POST /admin/user/<id>/edit by an administrator: the rows after it, the
\* status of the response and the attributes assigned with setattr
model_edit(rows, id, form, t) ==
    IF id \notin 1..Len(rows)
    THEN [rows |-> rows, status |-> StatusNotFound, written |-> {},
          flash |-> "none"]
    ELSE IF ~ValidateUserForm(form)
    THEN [rows |-> rows, status |-> StatusRendered, written |-> {},
          flash |-> "none"]
    ELSE LET r == ApplyFields(generate_form_class(UserColumns, "User"), form,
                              "User", rows[id], 1)
         IN  IF IntegrityError(rows, id, r.inst)
             THEN [rows |-> rows, status |-> StatusRendered,
                   written |-> r.written, flash |-> "Error updating User"]
             ELSE [rows |-> [rows EXCEPT ![id] =
                                IF r.inst = rows[id] THEN r.inst
                                ELSE [r.inst EXCEPT !.updated_at = t]],
                   status |-> StatusRedirect, written |-> r.written,
                   flash |-> "User updated successfully!"]

\* the texts typed into the form
N_ann == <<"a", "n", "n">>
N_bob == <<"b", "o", "b">>
N_none == <<"N", "o", "n", "e">>
P_old == <<"p", "a", "s", "s", "w", "o", "r", "d", "1", "2", "3">>
P_new == <<"n", "e", "w", "p", "a", "s", "s", "w", "o", "r", "d">>
P_short == <<"a", "b", "c">>
P_spaces == <<" ", " ", " ">>
P_long == [i \in 1..129 |-> "x"]
E_bob == <<"bob", "x.org">>
FormUsernames == {N_bob, N_ann, N_none, << >>}
FormEmails == {E_bob, E_ann, <<"bob">>}
FormPasswords == {<< >>, P_spaces, P_short, P_old, P_new, P_long}
UserForms ==
    [username : FormUsernames, email : FormEmails, password : FormPasswords,
     is_active : BOOLEAN, is_admin : {FALSE}]

Edit(id, form) ==
    /\ clock < MaxEdits
    /\ clock' = clock + 1
    /\ \E r \in {model_edit(userTable, id, form, clock + 1)} :
          /\ userTable' = r.rows
          /\ lastEdit' = Some([id |-> id, form |-> form, status |-> r.status,
                               written |-> r.written, flash |-> r.flash,
                               before |-> IF id \in 1..Len(userTable)
                                          THEN Some(userTable[id]) ELSE None])
    /\ UNCHANGED ElseThanAdmin

\* two users: ann, and bob, who has a password or signs in by magic link
\* and may hold a token
InitAdmin ==
    /\ ScaffoldIdle
    /\ AuthIdle
    /\ CmdIdle
    /\ TrackIdle
    /\ \E hasPassword \in BOOLEAN, token \in {None, Some(1)} :
          userTable =
            << UserRow(set_password(NewUser(N_ann, E_ann), P_old), 0),
               UserRow([NewUser(N_bob, E_bob) EXCEPT
                          !.password_hash =
                              IF hasPassword
                              THEN Some(generate_password_hash(P_old))
                              ELSE None,
                          !.magic_link_token = token,
                          !.magic_link_expires =
                              IF token = None THEN None
                              ELSE Some(MagicLinkMinutes)], 0) >>
    /\ clock = 0
    /\ lastEdit = None

NextAdmin == \E id \in 1..3, form \in UserForms : Edit(id, form)

SpecAdmin == InitAdmin /\ [][NextAdmin]_vars

\* the columns the form must not assign
ProtectedColumns ==
    {"id", "password_hash", "magic_link_token", "magic_link_expires",
     "created_at", "updated_at"}

\* a password field that looks blank
Blank(password) == strip(password) = << >>

\* C17: after the edit form of a user was submitted, a blank password left
\* the password_hash as it was, a non-blank password replaced it so that the
\* new password and no other checks, and none of password_hash,
\* magic_link_token, magic_link_expires, created_at, updated_at and the
\* primary key was assigned from the form
C17_PasswordEdit ==
    (lastEdit # None /\ lastEdit[1].before # None) =>
        LET e == lastEdit[1]
            before == e.before[1]
            after == userTable[e.id]
        IN  /\ Blank(e.form.password) =>
                  after.password_hash = before.password_hash
            /\ ~Blank(e.form.password) =>
                  \A p \in FormPasswords :
                      check_password(after, p) <=> p = e.form.password
            /\ e.written \cap ProtectedColumns = {}
            /\ after.magic_link_token = before.magic_link_token
            /\ after.magic_link_expires = before.magic_link_expires
            /\ after.created_at = before.created_at

C19_WriteFilesAllOrNothing ==
    (Ran /\ L.wf \in FileExistsErrors)
        => DOMAIN files = DOMAIN L.pre_files

\* the init file offers no place for the register_blueprint call
NoPlace(text) == \E sh \in InitShapes : TextOf(sh) = text /\ sh.regs = << >>

\* C20: update_app_init returned True only if the file it left has the
\* import line and the register_blueprint call of the new blueprint, and it
\* returned False when the file was missing, had the import line already,
\* or had no place to insert them.
C20_TrueOnlyIfRegistered ==
    (Ran /\ L.upd # "not called")
        => /\ L.upd = "True"
                => /\ AppInitPath \in DOMAIN files
                   /\ Contains(files[AppInitPath],
                               ClaimedImportLine(L.model_name))
                   /\ Contains(files[AppInitPath],
                               ClaimedRegisterCall(L.model_name))
           /\ (\/ AppInitPath \notin DOMAIN L.pre_files
               \/ Contains(L.pre_files[AppInitPath],
                           ClaimedImportLine(L.model_name))
               \/ NoPlace(L.pre_files[AppInitPath]))
                => L.upd = "False"

(***************************************************************************)
(* update_app_init called on its own: Scaffold(model_name, fields) is      *)
(* constructed and its update_app_init is called on app/__init__.py.       *)
(* lastUpd keeps the model, the value returned, the files the call started *)
(* from, and whether the call repeats the one before it: same model, on    *)
(* the file that call left, after that call inserted the import line.      *)
(***************************************************************************)
UpdFields == << F_user \o <<":", "string">> >>

ImportLineOf(model_name) == import_line(NewScaffold(model_name, UpdFields).obj[1])

CallUpdateAppInit(model_name) ==
    /\ \E u \in {update_app_init(NewScaffold(model_name, UpdFields).obj[1],
                                 dirs, files)} :
          /\ files' = u.files
          /\ lastUpd' =
               Some([model_name |-> model_name, ret |-> u.ret,
                     pre_files |-> files,
                     repeats |->
                        /\ lastUpd # None
                        /\ lastUpd[1].model_name = model_name
                        /\ lastUpd[1].ret
                        /\ AppInitPath \in DOMAIN files
                        /\ Contains(files[AppInitPath],
                                    ImportLineOf(model_name))
                        /\ ~Contains(lastUpd[1].pre_files[AppInitPath],
                                     ImportLineOf(model_name))])
    /\ UNCHANGED <<ctor, dirs, runs, lastRun, log>>
    /\ UNCHANGED ElseThanScaffold

InitUpd ==
    /\ AuthIdle
    /\ CmdIdle
    /\ TrackIdle
    /\ AdminIdle
    /\ ctor = NoCall
    /\ \E d \in StartDirs : dirs = d.dirs /\ files = d.files
    /\ runs = 0
    /\ lastRun = None
    /\ log = << >>
    /\ lastUpd = None

NextUpd == \E model_name \in CmdModels : CallUpdateAppInit(model_name)

SpecUpd == InitUpd /\ [][NextUpd]_vars

\* how often needle occurs in hay
Occurrences(hay, needle) ==
    Cardinality({ i \in 0..(Len(hay) - Len(needle)) :
                    SubSeq(hay, i + 1, i + Len(needle)) = needle })

\* C21: a call of update_app_init that repeats a call which inserted the
\* import line returns False and leaves the file as it was, with the import
\* line once and the register_blueprint line at most once.
C21_Idempotent ==
    (lastUpd # None /\ lastUpd[1].repeats)
        => /\ ~lastUpd[1].ret
           /\ files = lastUpd[1].pre_files
           /\ Occurrences(files[AppInitPath],
                          ClaimedImportLine(lastUpd[1].model_name)) = 1
           /\ Occurrences(files[AppInitPath],
                          ClaimedRegisterCall(lastUpd[1].model_name)) <= 1

C21_Witness ==
    /\ lastUpd # None
    /\ lastUpd[1].repeats
    /\ ~lastUpd[1].ret
    /\ Contains(files[AppInitPath], ClaimedRegisterCall(lastUpd[1].model_name))

(***************************************************************************)
(* The claims about where update_app_init puts the two lines, stated on    *)
(* the latest run of the scaffold command.                                 *)
(***************************************************************************)
\* the shapes of init file in which the '# Register blueprints' comment is
\* followed by one or more blueprint import lines
ImportSectionShapes ==
    { sh \in InitShapes : sh.cmt /\ ~sh.gap /\ sh.imps # << >> }

\* C22: after a run that called update_app_init on an init file whose
\* '# Register blueprints' comment is followed by blueprint import lines, the
\* new import line stands directly after the last of these lines.
C22_ImportAfterLastImport ==
    (/\ Ran
     /\ L.upd = "True")
        => \A sh \in ImportSectionShapes :
              TextOf(sh) = L.pre_files[AppInitPath] =>
                 Contains(files[AppInitPath],
                          BpImportLine(sh.imps[Len(sh.imps)])
                             \o <<"    ">> \o ClaimedImportLine(L.model_name)
                             \o <<"\n">>)

\* the text of the calls of an init file, one per line, is in the file
CallsIntact(text, sh) ==
    \A i \in 1..Len(sh.regs) : Contains(text, RegCallLine(sh.regs[i]))

\* C23: after a run that called update_app_init on an init file with
\* register_blueprint calls, the new call stands on a line of its own
\* directly after the last of these calls, indented as that call is, and
\* every call the file had is still there as it was.
C23_RegisterAfterLastCall ==
    (/\ Ran
     /\ L.upd = "True")
        => \A sh \in InitShapes :
              (TextOf(sh) = L.pre_files[AppInitPath] /\ sh.regs # << >>) =>
                 /\ Contains(files[AppInitPath],
                             RegCallLine(sh.regs[Len(sh.regs)])
                                \o <<"    ">>
                                \o ClaimedRegisterCall(L.model_name)
                                \o <<"\n">>)
                 /\ CallsIntact(files[AppInitPath], sh)

(***************************************************************************)
(* Runs of the scaffold command one after the other, without --skip-init,  *)
(* in an application that starts with the standard init file.              *)
(***************************************************************************)
MaxSeqRuns == 3

RunNext(model_name, fields) ==
    /\ runs < MaxSeqRuns
    /\ Run(model_name, fields, FALSE)

InitSeq ==
    /\ AuthIdle
    /\ CmdIdle
    /\ TrackIdle
    /\ AdminIdle
    /\ ctor = NoCall
    /\ dirs = AppWith(StandardShape, {}).dirs
    /\ files = AppWith(StandardShape, {}).files
    /\ runs = 0
    /\ lastRun = None
    /\ log = << >>
    /\ lastUpd = None

NextSeq ==
    \E model_name \in CmdModels, fields \in CmdFieldLists :
        RunNext(model_name, fields)

SpecSeq == InitSeq /\ [][NextSeq]_vars

\* the blueprints of the models whose run succeeded, among the first k runs
SucceededBlueprints(k) ==
    { PluralName(log[i].model_name) :
        i \in { j \in 1..k : log[j].exit_code = 0 } }

\* C24: after any runs of the scaffold command on the standard init file,
\* the file has the import line and the register_blueprint call of a model
\* exactly once if a run for its blueprint succeeded and not at all
\* otherwise, it still has the imports and the calls of main and auth, and
\* a run for a model that was scaffolded before exits with code 1 and
\* changes nothing.
C24_OneRegistrationPerModel ==
    /\ \A n \in CmdModels :
          LET k == IF PluralName(n) \in SucceededBlueprints(Len(log))
                   THEN 1 ELSE 0
          IN  /\ Occurrences(files[AppInitPath], ClaimedImportLine(n)) = k
              /\ Occurrences(files[AppInitPath], ClaimedRegisterCall(n)) = k
    /\ \A i \in 1..Len(StandardShape.imps) :
          Occurrences(files[AppInitPath],
                      BpImportLine(StandardShape.imps[i])) = 1
    /\ \A i \in 1..Len(StandardShape.regs) :
          Occurrences(files[AppInitPath],
                      RegCallLine(StandardShape.regs[i])) = 1
    /\ (/\ Ran
        /\ \E i \in 1..(Len(log) - 1) :
              log[i].model_name = L.model_name /\ log[i].exit_code = 0)
          => /\ L.exit_code = 1
             /\ files = L.pre_files
             /\ dirs = L.pre_dirs

C24_Witness ==
    /\ Len(log) = 3
    /\ log[1].exit_code = 0
    /\ log[2].exit_code = 0
    /\ log[1].model_name # log[2].model_name
    /\ log[3].model_name = log[1].model_name
    /\ log[3].exit_code = 1
    /\ AllValid(L.fields)
    /\ Contains(files[AppInitPath], ClaimedRegisterCall(log[2].model_name))

(***************************************************************************)
(* The claims about overlapping and failing verify_magic_link requests.    *)
(***************************************************************************)
\* the response browser c got logged a user in
LoggedInBy(c) ==
    /\ resp[c] # None
    /\ resp[c][1].flash = FlashLoggedIn
    /\ resp[c][1].user # None

\* C25: no two browsers were logged in by verify_magic_link responses to
\* the same token, however their requests were interleaved.
C25_OneLoginPerToken ==
    \A c, d \in Clients :
        (c # d /\ LoggedInBy(c) /\ LoggedInBy(d))
            => resp[c][1].token # resp[d][1].token

\* the stored token and expiry of every user
StoredLinks(rows) ==
    [i \in DOMAIN rows |-> <<rows[i].magic_link_token,
                             rows[i].magic_link_expires>>]

\* C27: a step in which a verify_magic_link request is answered without
\* logging a user in leaves the stored token and expiry of every user, and
\* the user each browser is logged in as, unchanged.
C27_FailedVerifyChangesNothing ==
    [][\A c \in Clients :
          (/\ resp'[c] # resp[c]
           /\ resp'[c] # None
           /\ ~(resp'[c][1].flash = FlashLoggedIn /\ resp'[c][1].user # None))
              => /\ StoredLinks(users') = StoredLinks(users)
                 /\ session' = session]_vars

(***************************************************************************)
(* Magic links over several requests: one browser asks for links for       *)
(* several addresses and follows them at several minutes, in applications  *)
(* configured with several values of MAGIC_LINK_EXPIRY_MINUTES.            *)
(***************************************************************************)
MaxLinks == 2
MaxRequests == 3

LinkClients == {"c1"}
E_ann3 == <<"ann", "z.org">>
LinkEmails == {E_ann, E_ann2}
RequestEmails == {E_ann, E_ann2, E_ann3, E_bob}

\* the values MAGIC_LINK_EXPIRY_MINUTES is configured to (config.py 39)
ExpiryMinutes == {5, MAGIC_LINK_EXPIRY_MINUTES, 30}

\* the minutes looked at: the last minute of the lifetime announced and
\* of the lifetime enforced, and the minute after each
LinkInstants(minutes) ==
    {minutes, minutes + 1, MagicLinkMinutes, MagicLinkMinutes + 1}

\* the users there are when the application starts
StartTables ==
    { << NewUser("ann", E_ann) >>,
      << NewUser("ann", E_ann), NewUser("ann2", <<"ann2", "x.org">>) >>,
      << NewUser("ann1", <<"ann1", "x.org">>) >> }

\* one browser, nobody logged in, no link mailed yet
InitBrowser ==
    /\ ScaffoldIdle
    /\ CmdIdle
    /\ TrackIdle
    /\ AdminIdle
    /\ now = 0
    /\ session = [c \in LinkClients |-> None]
    /\ req = [c \in LinkClients |-> None]
    /\ resp = [c \in LinkClients |-> None]
    /\ issued = << >>
    /\ spent = {}
    /\ outbox = << >>

InitLinks ==
    /\ InitBrowser
    /\ users = << NewUser("ann", E_ann) >>
    /\ config \in ExpiryMinutes

NextLinks ==
    \/ \E c \in LinkClients, email \in LinkEmails :
          Len(issued) < MaxLinks /\ MagicLink(c, email)
    \/ \E c \in LinkClients, token \in 1..MaxLinks : VerifyQuery(c, token)
    \/ \E c \in LinkClients : VerifyLogin(c)
    \/ \E c \in LinkClients : Logout(c)
    \/ \E t \in LinkInstants(config) : Tick(t)

SpecLinks == InitLinks /\ [][NextLinks]_vars

\* requests for links for addresses old and new, followed at once
InitUsers ==
    /\ InitBrowser
    /\ users \in StartTables
    /\ config = MAGIC_LINK_EXPIRY_MINUTES

NextUsers ==
    \/ \E c \in LinkClients, email \in RequestEmails :
          Len(issued) < MaxRequests /\ MagicLink(c, email)
    \/ \E c \in LinkClients, token \in 1..MaxRequests : VerifyQuery(c, token)
    \/ \E c \in LinkClients : VerifyLogin(c)
    \/ \E c \in LinkClients : Logout(c)

SpecUsers == InitUsers /\ [][NextUsers]_vars

\* the step is a magic_link request: a link is mailed
LinkMailed == Len(outbox') = Len(outbox) + 1

\* the step answers the verify_magic_link request of browser c
Answered(c) ==
    /\ resp'[c] # None
    /\ \/ req[c] # None /\ req'[c] = None
       \/ req[c] = None /\ req'[c] = None /\ resp'[c] # resp[c]

\* C26: a magic_link request leaves its user with the token it mailed and
\* the expiry it computed, whatever the user had stored, and a
\* verify_magic_link request with a token logs nobody in once a later link
\* was mailed to the same address, expired or not.
C26_EarlierTokenRejected ==
    [][/\ LinkMailed =>
            \E i \in DOMAIN users' :
               /\ users'[i].email = outbox'[Len(outbox')].to
               /\ users'[i].magic_link_token = Some(outbox'[Len(outbox')].token)
               /\ users'[i].magic_link_expires = Some(now + MagicLinkMinutes)
               /\ \A j \in DOMAIN users' :
                     j # i => users'[j].magic_link_token
                                 # users'[i].magic_link_token
       /\ \A c \in LinkClients :
            (/\ Answered(c)
             /\ \E j \in (resp'[c][1].token + 1)..Len(outbox) :
                   outbox[j].to = outbox[resp'[c][1].token].to)
                => /\ resp'[c][1].flash # FlashLoggedIn
                   /\ session'[c] = session[c]]_vars

\* an anonymous browser was refused with the first link, which had not
\* expired and had logged nobody in, after a second link went to the
\* same address
C26_Witness ==
    /\ \E c \in LinkClients :
          /\ resp[c] # None
          /\ resp[c][1].token = 1
          /\ resp[c][1].anonymous
          /\ ~resp[c][1].stale
          /\ resp[c][1].flash = FlashInvalid
    /\ Len(outbox) = 2
    /\ outbox[2].to = outbox[1].to
    /\ now <= issued[1] + MagicLinkMinutes
    /\ spent = {}

\* some user has the username
UsernameTaken(rows, username) ==
    \E i \in DOMAIN rows : rows[i].username = username

\* the k-th username tried for a local part
Candidate(base, k) == IF k = 0 THEN base ELSE base \o ToString(k)

\* no two users share a username
UsernamesUnique(rows) ==
    \A i, j \in DOMAIN rows : rows[i].username = rows[j].username => i = j

\* the usernames and email addresses of the users, in order
Identities(rows) == [i \in DOMAIN rows |-> <<rows[i].username, rows[i].email>>]

\* C28: a magic_link request for an address no user has adds exactly one
\* user, with that address, whose username is the local part if no user
\* has it, else the local part followed by the smallest k >= 1 for which no
\* user has the result; a request for an address a user has adds no user;
\* usernames stay unique.
C28_NewUserUniqueUsername ==
    [][LinkMailed =>
         \E email \in { outbox'[Len(outbox')].to } :
            /\ UsernamesUnique(users) => UsernamesUnique(users')
            /\ IF \E i \in DOMAIN users : users[i].email = email
               THEN Identities(users') = Identities(users)
               ELSE /\ Len(users') = Len(users) + 1
                    /\ SubSeq(Identities(users'), 1, Len(users))
                          = Identities(users)
                    /\ users'[Len(users')].email = email
                    /\ \E k \in 0..Len(users) :
                          /\ users'[Len(users')].username
                                = Candidate(email[1], k)
                          /\ ~UsernameTaken(users, Candidate(email[1], k))
                          /\ \A j \in 0..(k - 1) :
                                UsernameTaken(users, Candidate(email[1], j))]_vars

\* users ann, ann1 and ann2 were there when a third address with the local
\* part ann asked for a link, and a user bob was made for its address
C28_Witness ==
    /\ \E i \in DOMAIN users :
          users[i].email = E_ann3 /\ users[i].username = "ann3"
    /\ \E i \in DOMAIN users :
          users[i].email = E_ann2 /\ users[i].username = "ann1"
    /\ \E i \in DOMAIN users :
          users[i].email = E_bob /\ users[i].username = "bob"
    /\ Len(outbox) = 3

\* C29: a verify_magic_link request with the token a user has stored logs
\* the user in exactly when no more minutes have passed since the link was
\* mailed than the mail announced, whatever MAGIC_LINK_EXPIRY_MINUTES is.
C29_EnforcedIsAnnounced ==
    [][\A c \in LinkClients :
          (req[c] # None /\ req'[c] = None)
             => \E m \in { outbox[req[c][1].token] } :
                   (resp'[c][1].flash = FlashLoggedIn)
                      <=> (now <= issued[m.token] + m.minutes)]_vars

(***************************************************************************)
(* The claim about the temporary script of add_user_to_app.                *)
(***************************************************************************)
\* C30: however a call of add_user_to_app that made its temporary script
\* file ended (it returned True or False, or it raised), the file is not
\* there afterwards.
C30_TempScriptGone ==
    (/\ Called
     /\ K.op = "add_user_to_app"
     /\ K.temp_script.created)
        => ~K.temp_script.exists

====
